---- MODULE Spec2Model ----
(***************************************************************************)
(* Job execution router (server/services/job-queue), the content          *)
(* generation and niche analysis pipelines it drives, and the page        *)
(* scraper.  The durable broker (BullMQ on Redis), the model invocation,  *)
(* the image generator and the headless browser are collaborators: every  *)
(* outcome they can produce is a nondeterministic input of the action     *)
(* that calls them.                                                        *)
(***************************************************************************)
EXTENDS Integers, Sequences, FiniteSets, TLC

\* ------------------------------------------------------------------------
\* Bounds of the model
\* ------------------------------------------------------------------------
MaxCalls == 2       \* submit calls made by callers
MaxStatusCalls == 1 \* submit calls made while callers ask for the status of jobs
MaxBurst == 3       \* niche-analysis jobs submitted in a burst
MaxClock == 1       \* readings of Date.now() range over 0..MaxClock
MaxInits == 1       \* calls of initializeWorkers() after the one at module load
MaxScrapes == 2     \* scrapeWebsite calls
MaxResultJobs == 2  \* jobs enqueued while callers ask for their results
MaxBodyLen == 2     \* characters of the body of a content to validate
MaxIndustryLen == 3 \* characters of the industry of an analysis to validate
MaxListLen == 3     \* entries of a list of an analysis to validate
MaxJsonLen == 4     \* tokens of a JSON text given to the response parser
MaxProseLen == 2    \* tokens of the prose before and after a JSON text
MaxResponseLen == 3 \* tokens of the text a model answers with
MaxPatternLen == 2  \* elements of the pattern a document repeats
MaxEnqueueCalls == 1 \* submit calls whose enqueue call can fail after the broker took the job
MaxVerifyCalls == 4  \* verifyOtp calls

\* ------------------------------------------------------------------------
\* Strings that the code inspects are sequences of characters
\* ------------------------------------------------------------------------
Digits == <<"0", "1", "2", "3", "4", "5", "6", "7", "8", "9">>

RECURSIVE NumToStr(_)
NumToStr(n) ==
  IF n < 10 THEN <<Digits[n + 1]>>
  ELSE NumToStr(n \div 10) \o <<Digits[(n % 10) + 1]>>

StartsWith(s, p) == Len(s) >= Len(p) /\ SubSeq(s, 1, Len(p)) = p

DirectPrefix == <<"d", "i", "r", "e", "c", "t", "-">>
JobPrefix == <<"j", "o", "b", "-">>

None == [none |-> TRUE]

\* ------------------------------------------------------------------------
\* Content generation pipeline (server/services/content-generation.ts)
\* ------------------------------------------------------------------------
Platforms == {"instagram", "facebook", "twitter", "linkedin", "tiktok"}

PLATFORM_SPECS ==
  [p \in Platforms |->
     CASE p = "instagram" -> [maxLength |-> 2200, optimalLength |-> 150, hashtagLimit |-> 30]
       [] p = "facebook"  -> [maxLength |-> 63206, optimalLength |-> 250, hashtagLimit |-> 10]
       [] p = "twitter"   -> [maxLength |-> 280, optimalLength |-> 240, hashtagLimit |-> 3]
       [] p = "linkedin"  -> [maxLength |-> 3000, optimalLength |-> 150, hashtagLimit |-> 5]
       [] p = "tiktok"    -> [maxLength |-> 2200, optimalLength |-> 100, hashtagLimit |-> 10]]

\* PLATFORM_SPECS is an object literal: PLATFORM_SPECS[key] is the entry of
\* the key, for a property name inherited from Object.prototype a value
\* that is truthy and has no maxLength or hashtagLimit, and undefined for
\* any other key
ObjectPrototypeKeys == {"constructor", "toString"}

SpecsOf(platform) ==
  IF platform \in DOMAIN PLATFORM_SPECS
    THEN [kind |-> "entry", spec |-> PLATFORM_SPECS[platform]]
  ELSE IF platform \in ObjectPrototypeKeys THEN [kind |-> "inherited"]
  ELSE [kind |-> "undefined"]

\* What invokeLLM can do: reject, or resolve with an empty content, a text
\* from which no JSON object is recovered, or a JSON object.
LLMOutcomes == {"throws", "empty", "unparseable", "json"}

\* What generateImage can resolve to: a url, or null (no API key, API error).
ImageOutcomes == {"url", "null"}

Thrown(msg) == [ok |-> FALSE, error |-> msg]
Returned(v) == [ok |-> TRUE, value |-> v]

generateContent(request, llm) ==
  IF SpecsOf(request.platform).kind = "undefined"
    THEN Thrown("TypeError: specs is undefined")
  ELSE IF llm = "throws" THEN Thrown("Content generation failed: LLM error")
  ELSE IF llm = "empty" THEN Thrown("Content generation failed: Empty response from Claude")
  ELSE IF llm = "unparseable"
    THEN Thrown("Content generation failed: Could not parse Claude response as JSON")
  ELSE Returned([body |-> "body", imageUrl |-> "null", platform |-> request.platform])

generateContentWithImage(request, llm, img) ==
  LET content == generateContent(request, llm) IN
    IF ~content.ok THEN content
    ELSE IF request.includeImage
      THEN Returned([content.value EXCEPT !.imageUrl = img])
      ELSE content

\* The collaborators generateContent calls before it settles: the prompt is
\* built from specs.maxLength before invokeLLM, so that for a platform
\* without an entry the TypeError comes before the model is invoked
generateContentInvokes(request) ==
  IF SpecsOf(request.platform).kind = "undefined" THEN <<>>
  ELSE <<"invokeLLM">>

\* An optional value: undefined, or the value
Undefined == <<>>
Defined(v) == <<v>>
ValueOf(o) == o[1]

Whitespace == {" "}

\* String.prototype.trim
RECURSIVE TrimStart(_)
TrimStart(str) ==
  IF str # <<>> /\ Head(str) \in Whitespace THEN TrimStart(Tail(str)) ELSE str

RECURSIVE TrimEnd(_)
TrimEnd(str) ==
  IF str # <<>> /\ str[Len(str)] \in Whitespace
    THEN TrimEnd(SubSeq(str, 1, Len(str) - 1))
    ELSE str

Trim(str) == TrimEnd(TrimStart(str))

\* An issue message: the words of its template and the values put into it
Issue(words, platform, nums) == [words |-> words, platform |-> platform, nums |-> nums]

\* issue.includes(word)
Includes(issue, word) == \E i \in DOMAIN issue.words : issue.words[i] = word

\* The limit is counted as exceeded when it is reached
LengthIssues_AtLimit(content, specs) ==
  IF specs.kind = "entry" /\ content.characterCount >= specs.spec.maxLength
    THEN <<Issue(<<"Content", "exceeds", "limit", "characters">>, content.platform,
                 <<content.characterCount, specs.spec.maxLength>>)>>
    ELSE <<>>

\* if (content.characterCount > specs.maxLength): a comparison with the
\* undefined maxLength of an inherited value is false
LengthIssues(content, specs) ==
  IF specs.kind = "entry" /\ content.characterCount > specs.spec.maxLength
    THEN <<Issue(<<"Content", "exceeds", "limit", "characters">>, content.platform,
                 <<content.characterCount, specs.spec.maxLength>>)>>
    ELSE <<>>

\* if (content.hashtags && content.hashtags.length > specs.hashtagLimit)
HashtagIssues(content, specs) ==
  IF /\ content.hashtags # Undefined
     /\ specs.kind = "entry"
     /\ Len(ValueOf(content.hashtags)) > specs.spec.hashtagLimit
    THEN <<Issue(<<"Too", "many", "hashtags">>, "",
                 <<Len(ValueOf(content.hashtags)), specs.spec.hashtagLimit>>)>>
    ELSE <<>>

\* The body is not trimmed before it is measured
BodyIssues_NoTrim(content) ==
  IF content.body = Undefined \/ Len(ValueOf(content.body)) = 0
    THEN <<Issue(<<"Content", "body", "is", "empty">>, "", <<>>)>>
    ELSE <<>>

\* if (!content.body || content.body.trim().length === 0)
BodyIssues(content) ==
  IF content.body = Undefined \/ Len(Trim(ValueOf(content.body))) = 0
    THEN <<Issue(<<"Content", "body", "is", "empty">>, "", <<>>)>>
    ELSE <<>>

validateContent(content) ==
  LET specs == SpecsOf(content.platform) IN
    IF specs.kind = "undefined"
      THEN [isValid |-> FALSE,
            issues |-> <<Issue(<<"Unknown", "platform">>, content.platform, <<>>)>>]
      ELSE LET issues == LengthIssues(content, specs) \o HashtagIssues(content, specs)
                           \o BodyIssues(content)
           IN [isValid |-> Len(issues) = 0, issues |-> issues]

\* The content object after validateContent has returned: the function
\* reads its fields and assigns none
ContentAfterValidation(content) == content

\* ------------------------------------------------------------------------
\* Model response parser (generateContent and analyzeNiche share it)
\* ------------------------------------------------------------------------
\* A response text is a sequence of tokens: "{" and "}", "k" for a member
\* with a scalar value, "1" for a number, " " for whitespace, "x" for a word
\* of prose
JsonTokens == {"{", "}", "k"}
JsonNumber == "1"

RECURSIVE WithoutWhitespace(_)
WithoutWhitespace(text) ==
  IF text = <<>> THEN <<>>
  ELSE IF Head(text) \in Whitespace THEN WithoutWhitespace(Tail(text))
  ELSE <<Head(text)>> \o WithoutWhitespace(Tail(text))

\* The nesting depth after each token of a text
RECURSIVE Depth(_, _)
Depth(text, i) ==
  IF i = 0 THEN 0
  ELSE Depth(text, i - 1)
         + (IF text[i] = "{" THEN 1 ELSE IF text[i] = "}" THEN -1 ELSE 0)

\* JSON.parse(text): the text must be one value, a number or an object,
\* with whitespace between its tokens at will; the value is returned (for
\* an object: its members in order, without the whitespace), anything
\* else is a SyntaxError
JSONParse(text) ==
  LET tokens == WithoutWhitespace(text) IN
    IF tokens = <<JsonNumber>> THEN Returned(tokens)
    ELSE IF /\ tokens # <<>>
            /\ \A i \in DOMAIN tokens : tokens[i] \in JsonTokens
            /\ tokens[1] = "{"
            /\ \A i \in 1..(Len(tokens) - 1) : Depth(tokens, i) >= 1
            /\ Depth(tokens, Len(tokens)) = 0
      THEN Returned(tokens)
      ELSE Thrown("SyntaxError")

\* The span ends at the first closing brace
BraceSpan_Lazy(text) ==
  LET opens == {i \in DOMAIN text : text[i] = "{"} IN
    IF opens = {} THEN Undefined
    ELSE LET first == CHOOSE i \in opens : \A j \in opens : i <= j
             closes == {i \in DOMAIN text : text[i] = "}" /\ i > first}
         IN IF closes = {} THEN Undefined
            ELSE Defined(SubSeq(text, first,
                                CHOOSE i \in closes : \A j \in closes : i <= j))

\* textContent.match(/\{[\s\S]*\}/): from the first opening brace to the
\* last closing brace after it
BraceSpan(text) ==
  LET opens == {i \in DOMAIN text : text[i] = "{"} IN
    IF opens = {} THEN Undefined
    ELSE LET first == CHOOSE i \in opens : \A j \in opens : i <= j
             closes == {i \in DOMAIN text : text[i] = "}" /\ i > first}
         IN IF closes = {} THEN Undefined
            ELSE Defined(SubSeq(text, first,
                                CHOOSE i \in closes : \A j \in closes : i >= j))

\* try { JSON.parse(content) } catch { match ? JSON.parse(match[0]) : throw }
ParseResponse(text) ==
  LET direct == JSONParse(text) IN
    IF direct.ok THEN direct
    ELSE LET jsonMatch == BraceSpan(text) IN
      IF jsonMatch = Undefined
        THEN Thrown("Could not parse Claude response as JSON")
        ELSE JSONParse(ValueOf(jsonMatch))

\* ------------------------------------------------------------------------
\* generateContent on the response of the model (content-generation.ts)
\* ------------------------------------------------------------------------
\* What invokeLLM does in one run: it rejects, or it resolves with a content
\* text; body and hashtags are the members of these names of the outermost
\* object of the text, where it has them
LLMResponse(rejects, content, body, hashtags) ==
  [rejects |-> rejects, content |-> content, body |-> body, hashtags |-> hashtags]

\* A parsed value is an object when it is not a scalar
IsJsonObject(value) == value[1] = "{"

\* parsedContent.name: a number has no such property
Property(value, member) == IF IsJsonObject(value) THEN member ELSE Undefined

\* hashtags.join(" ")
RECURSIVE Join(_)
Join(list) ==
  IF list = <<>> THEN <<>>
  ELSE IF Len(list) = 1 THEN list[1]
  ELSE list[1] \o <<" ">> \o Join(Tail(list))

\* body.split(" ").length
SplitLength(body) == Cardinality({i \in DOMAIN body : body[i] = " "}) + 1

\* Math.ceil(n / 200)
WordsPerMinute == 200
ReadTime(n) == (n + WordsPerMinute - 1) \div WordsPerMinute

\* catch (error) { throw new Error(`Content generation failed: ${message}`) }
ContentGenerationFailed(message) == Thrown(<<"Content generation failed", message>>)

\* The count leaves the hashtags out
CharacterCount_BodyOnly(body, hashtags) == Len(body)

\* const totalLength = body.length + hashtags.join(" ").length
CharacterCount(body, hashtags) == Len(body) + Len(Join(hashtags))

\* generateContent(request) when invokeLLM answers with the response: the
\* text is parsed, body and hashtags default to "" and [], the length is
\* counted and a count over the limit is only logged
GenerateContentRun(request, response) ==
  IF SpecsOf(request.platform).kind = "undefined"
    THEN Thrown("TypeError: specs is undefined")
  ELSE IF response.rejects THEN ContentGenerationFailed("LLM error")
  ELSE IF response.content = <<>>
    THEN ContentGenerationFailed("Empty response from Claude")
  ELSE LET parsed == ParseResponse(response.content) IN
    IF ~parsed.ok THEN ContentGenerationFailed(parsed.error)
    ELSE LET member == Property(parsed.value, response.body)
             tags == Property(parsed.value, response.hashtags)
             body == IF member = Undefined THEN <<>> ELSE ValueOf(member)
             hashtags == IF tags = Undefined THEN <<>> ELSE ValueOf(tags)
         IN Returned([body |-> body, hashtags |-> hashtags, imageUrl |-> "null",
                      platform |-> request.platform,
                      characterCount |-> CharacterCount(body, hashtags),
                      estimatedReadTime |-> ReadTime(SplitLength(body))])

\* What stands behind generateImage: no OPENAI_API_KEY, an API call that
\* rejects, a reply without a url, or a reply with one
ImageCollaborator == {"unconfigured", "fails", "empty", "url"}

\* generateImage(prompt, style): null unless the API answered with a url
generateImage(image) == IF image = "url" THEN "https://image" ELSE "null"

\* request.imageStyle ? `${request.topic}. ${request.imageStyle}` : request.topic
ImagePrompt(request) ==
  IF request.imageStyle = Undefined THEN <<request.topic>>
  ELSE <<request.topic, ValueOf(request.imageStyle)>>

\* A failure of the image collaborator is passed on to the caller
GenerateContentWithImageRun_ImageThrows(request, response, image) ==
  LET content == GenerateContentRun(request, response) IN
    IF ~content.ok THEN content
    ELSE IF request.includeImage
      THEN IF image = "fails" THEN Thrown("Image generation failed")
           ELSE Returned([imagePrompt |-> ImagePrompt(request)]
                           @@ [content.value EXCEPT !.imageUrl = generateImage(image)])
      ELSE content

\* generateContentWithImage(request): the text first, then the image where
\* the request asks for one
GenerateContentWithImageRun(request, response, image) ==
  LET content == GenerateContentRun(request, response) IN
    IF ~content.ok THEN content
    ELSE IF request.includeImage
      THEN Returned([imagePrompt |-> ImagePrompt(request)]
                      @@ [content.value EXCEPT !.imageUrl = generateImage(image)])
      ELSE content

\* validateContent applied to the content a run returned
Validation(content) ==
  IF content.ok
    THEN validateContent([platform |-> content.value.platform,
                          characterCount |-> content.value.characterCount,
                          body |-> Defined(content.value.body),
                          hashtags |-> Defined(content.value.hashtags)])
    ELSE None

\* The collaborators one run calls, in the order of the calls
GenerateContentWithImageInvokes(request, response, image) ==
  IF SpecsOf(request.platform).kind = "undefined" THEN <<>>
  ELSE <<"invokeLLM">>
         \o (IF /\ GenerateContentRun(request, response).ok
                /\ request.includeImage
                /\ image # "unconfigured"
               THEN <<"openai.images.generate">>
               ELSE <<>>)

\* The request is overwritten with the generated content
RequestAfterGenerate_Overwritten(request) == [request EXCEPT !.includeImage = FALSE]

\* The request object once generateContentWithImage has settled: the
\* function reads its fields and assigns to the content only
RequestAfterGenerate(request) == request

\* ------------------------------------------------------------------------
\* Niche analysis pipeline (server/services/niche-intelligence)
\* ------------------------------------------------------------------------
ScrapeOutcomes == {"ok", "fails"}

analyzeNiche(request, scrape, llm) ==
  IF scrape = "fails"
    THEN Thrown("Niche analysis failed: Failed to scrape website")
  ELSE IF llm = "throws" THEN Thrown("Niche analysis failed: LLM error")
  ELSE IF llm = "empty" THEN Thrown("Niche analysis failed: Empty response from Claude")
  ELSE IF llm = "unparseable"
    THEN Thrown("Niche analysis failed: Could not parse Claude analysis as JSON")
  ELSE Returned([industry |-> "industry", websiteUrl |-> request.websiteUrl])

\* object?.field
Field(o, f) == IF o = Undefined THEN Undefined ELSE ValueOf(o)[f]

\* !str is false: the string is there and not empty
Truthy(str) == str # Undefined /\ Len(ValueOf(str)) > 0

\* if (!analysis.industry || analysis.industry.length < 3)
IndustryIssues(analysis) ==
  IF ~Truthy(analysis.industry) \/ Len(ValueOf(analysis.industry)) < 3
    THEN <<Issue(<<"Industry", "classification", "is", "missing", "or", "too", "short">>,
                 "", <<>>)>>
    ELSE <<>>

\* if (!analysis.brandVoice?.tone)
ToneIssues(analysis) ==
  IF ~Truthy(Field(analysis.brandVoice, "tone"))
    THEN <<Issue(<<"Brand", "voice", "tone", "is", "missing">>, "", <<>>)>>
    ELSE <<>>

\* Two brand keywords are taken to be enough
BrandKeywordIssues_Two(analysis) ==
  IF \/ Field(analysis.brandVoice, "keywords") = Undefined
     \/ Len(ValueOf(Field(analysis.brandVoice, "keywords"))) < 2
    THEN <<Issue(<<"Insufficient", "brand", "keywords">>, "", <<>>)>>
    ELSE <<>>

\* if (!analysis.brandVoice?.keywords || analysis.brandVoice.keywords.length < 3)
BrandKeywordIssues(analysis) ==
  IF \/ Field(analysis.brandVoice, "keywords") = Undefined
     \/ Len(ValueOf(Field(analysis.brandVoice, "keywords"))) < 3
    THEN <<Issue(<<"Insufficient", "brand", "keywords">>, "", <<>>)>>
    ELSE <<>>

\* if (!analysis.targetAudience?.demographics)
DemographicsIssues(analysis) ==
  IF ~Truthy(Field(analysis.targetAudience, "demographics"))
    THEN <<Issue(<<"Target", "audience", "demographics", "missing">>, "", <<>>)>>
    ELSE <<>>

\* if (!analysis.contentStrategy?.topics || analysis.contentStrategy.topics.length < 3)
TopicIssues(analysis) ==
  IF \/ Field(analysis.contentStrategy, "topics") = Undefined
     \/ Len(ValueOf(Field(analysis.contentStrategy, "topics"))) < 3
    THEN <<Issue(<<"Insufficient", "content", "topics">>, "", <<>>)>>
    ELSE <<>>

\* The list of platforms is not looked at
PlatformIssues_Unchecked(analysis) == <<>>

\* if (!analysis.contentStrategy?.platforms || analysis.contentStrategy.platforms.length < 1)
PlatformIssues(analysis) ==
  IF \/ Field(analysis.contentStrategy, "platforms") = Undefined
     \/ Len(ValueOf(Field(analysis.contentStrategy, "platforms"))) < 1
    THEN <<Issue(<<"No", "platforms", "recommended">>, "", <<>>)>>
    ELSE <<>>

validateAnalysis(analysis) ==
  LET issues == IndustryIssues(analysis) \o ToneIssues(analysis)
                  \o BrandKeywordIssues(analysis) \o DemographicsIssues(analysis)
                  \o TopicIssues(analysis) \o PlatformIssues(analysis)
  IN [isValid |-> Len(issues) = 0, issues |-> issues]

\* The analysis object after validateAnalysis has returned: the function
\* reads its fields and assigns none
AnalysisAfterValidation(analysis) == analysis

\* ------------------------------------------------------------------------
\* analyzeNiche on the outcome of the scraper and the response of the model
\* ------------------------------------------------------------------------
\* What scrapeWebsite does in one run: it resolves with the page, or it
\* rejects with `Failed to scrape website: ${cause}`
ScrapeResult(ok, cause) == [ok |-> ok, cause |-> cause]

ScrapeWebsiteRun(scrape) ==
  IF scrape.ok THEN Returned("page")
  ELSE Thrown(<<"Failed to scrape website", scrape.cause>>)

\* try { JSON.parse(content) } catch { match ? JSON.parse(match[0]) : throw }
ParseAnalysis(text) ==
  LET direct == JSONParse(text) IN
    IF direct.ok THEN direct
    ELSE LET jsonMatch == BraceSpan(text) IN
      IF jsonMatch = Undefined
        THEN Thrown("Could not parse Claude analysis as JSON")
        ELSE JSONParse(ValueOf(jsonMatch))

\* catch (error) { throw new Error(`Niche analysis failed: ${error.message}`) }
NicheAnalysisFailed(message) == Thrown(<<"Niche analysis failed">> \o message)

\* The message of the scraper is replaced by its cause
AnalyzeNicheRun_CauseOnly(request, scrape, response) ==
  LET scrapedData == ScrapeWebsiteRun(scrape) IN
    IF ~scrapedData.ok THEN NicheAnalysisFailed(<<scrape.cause>>)
    ELSE IF response.rejects THEN NicheAnalysisFailed(<<response.cause>>)
    ELSE IF response.content = <<>>
      THEN NicheAnalysisFailed(<<"Empty response from Claude">>)
    ELSE LET analysis == ParseAnalysis(response.content) IN
      IF ~analysis.ok THEN NicheAnalysisFailed(<<analysis.error>>)
      ELSE analysis

\* analyzeNiche(request) when scrapeWebsite settles as scrape and invokeLLM
\* as response: every error is thrown again with its message behind the
\* prefix, the parsed value is returned as it is
AnalyzeNicheRun(request, scrape, response) ==
  LET scrapedData == ScrapeWebsiteRun(scrape) IN
    IF ~scrapedData.ok THEN NicheAnalysisFailed(scrapedData.error)
    ELSE IF response.rejects THEN NicheAnalysisFailed(<<response.cause>>)
    ELSE IF response.content = <<>>
      THEN NicheAnalysisFailed(<<"Empty response from Claude">>)
    ELSE LET analysis == ParseAnalysis(response.content) IN
      IF ~analysis.ok THEN NicheAnalysisFailed(<<analysis.error>>)
      ELSE analysis

\* The collaborators one run calls, in the order of the calls
AnalyzeNicheInvokes(request, scrape, response) ==
  <<"scrapeWebsite">> \o (IF ScrapeWebsiteRun(scrape).ok THEN <<"invokeLLM">> ELSE <<>>)

\* The request object once analyzeNiche has settled: the function reads
\* request.websiteUrl and assigns nothing
RequestAfterAnalyze(request) == request

\* ------------------------------------------------------------------------
\* Website extractor: extractStructuredContent(html)
\* ------------------------------------------------------------------------
\* A document is the sequence of its top-level elements; an element has a
\* tag, a class attribute, a text of its own and child elements
Element(tag, class, text, children) ==
  [tag |-> tag, class |-> class, text |-> text, children |-> children]

\* The elements of a document in document order
RECURSIVE Elements(_)
Elements(nodes) ==
  IF nodes = <<>> THEN <<>>
  ELSE <<Head(nodes)>> \o Elements(Head(nodes).children) \o Elements(Tail(nodes))

\* $(el).text(): the text of the element and of its descendants
RECURSIVE TextOf(_), TextOfAll(_)
TextOf(el) == el.text \o TextOfAll(el.children)
TextOfAll(els) ==
  IF els = <<>> THEN <<>> ELSE TextOf(Head(els)) \o TextOfAll(Tail(els))

\* [class*="word"]: the attribute value contains the word
Contains(str, word) ==
  \E i \in 1..(Len(str) - Len(word) + 1) : SubSeq(str, i, i + Len(word) - 1) = word

SERVICE == <<"s", "e", "r", "v", "i", "c", "e">>
PRODUCT == <<"p", "r", "o", "d", "u", "c", "t">>
OFFER == <<"o", "f", "f", "e", "r">>
TESTIMONIAL == <<"t", "e", "s", "t", "i", "m", "o", "n", "i", "a", "l">>
REVIEW == <<"r", "e", "v", "i", "e", "w">>
FEEDBACK == <<"f", "e", "e", "d", "b", "a", "c", "k">>

ServiceWords == {SERVICE, PRODUCT, OFFER}
TestimonialWords == {TESTIMONIAL, REVIEW, FEEDBACK}

\* The selector of each list of the result
Selected(el, list) ==
  CASE list = "headings" -> el.tag \in {"h1", "h2", "h3"}
    [] list = "paragraphs" -> el.tag = "p"
    [] list = "services" -> \E word \in ServiceWords : Contains(el.class, word)
    [] list = "testimonials" -> \E word \in TestimonialWords : Contains(el.class, word)

\* A paragraph of 50 characters is kept
Kept_AtFifty(text, list) ==
  CASE list = "headings" -> Len(text) > 0
    [] list = "paragraphs" -> Len(text) > 0 /\ Len(text) >= 50
    [] list = "services" -> Len(text) > 0 /\ Len(text) > 20 /\ Len(text) < 500
    [] list = "testimonials" -> Len(text) > 0 /\ Len(text) > 30

\* if (text && text.length > ...) list.push(text)
Kept(text, list) ==
  CASE list = "headings" -> Len(text) > 0
    [] list = "paragraphs" -> Len(text) > 0 /\ Len(text) > 50
    [] list = "services" -> Len(text) > 0 /\ Len(text) > 20 /\ Len(text) < 500
    [] list = "testimonials" -> Len(text) > 0 /\ Len(text) > 30

\* $(selector).each((_, el) => { const text = $(el).text().trim(); ... })
RECURSIVE Each(_, _)
Each(els, list) ==
  IF els = <<>> THEN <<>>
  ELSE LET text == Trim(TextOf(Head(els))) IN
    (IF Selected(Head(els), list) /\ Kept(text, list) THEN <<text>> ELSE <<>>)
      \o Each(Tail(els), list)

\* list.slice(0, n)
Slice(list, n) == SubSeq(list, 1, IF Len(list) < n THEN Len(list) ELSE n)

ListLimits == [headings |-> 20, paragraphs |-> 30, services |-> 10, testimonials |-> 5]

extractStructuredContent(html) ==
  [list \in DOMAIN ListLimits |-> Slice(Each(Elements(html), list), ListLimits[list])]

\* ------------------------------------------------------------------------
\* Payloads submitted by callers
\* ------------------------------------------------------------------------
ContentRequests ==
  { [topic |-> "topic", platform |-> "twitter", includeImage |-> FALSE],
    [topic |-> "topic", platform |-> "linkedin", includeImage |-> TRUE] }

NicheRequests == { [websiteUrl |-> "https://example.com"] }

\* A request whose platform has no entry in PLATFORM_SPECS (the type of the
\* field is not checked at run time)
UnknownPlatformRequests ==
  { [topic |-> "topic", platform |-> "myspace", includeImage |-> FALSE] }

CONTENT == "content-generation"
NICHE == "niche-analysis"
QueueNames == {CONTENT, NICHE}

\* The collaborators' outcomes during one pipeline run of a job
Envs ==
  { [scrape |-> "ok", llm |-> "json", img |-> "url"],
    [scrape |-> "ok", llm |-> "json", img |-> "null"],
    [scrape |-> "fails", llm |-> "empty", img |-> "null"] }

executeContentGeneration(data, env) == generateContentWithImage(data, env.llm, env.img)
executeNicheAnalysis(data, env) == analyzeNiche(data, env.scrape, env.llm)

\* The processor a worker of the queue runs, and the direct fallback of the
\* submit function of that kind: both call the same pipeline.
Pipeline(kind, data, env) ==
  IF kind = CONTENT THEN executeContentGeneration(data, env)
  ELSE executeNicheAnalysis(data, env)

VARIABLES
  REDIS_AVAILABLE,  \* process.env.REDIS_HOST || process.env.REDIS_URL is set
  bullmq,           \* require("bullmq") succeeded: Queue and Worker are defined
  now,              \* the latest reading of Date.now()
  calls,            \* the submit calls: position, payload and what was returned
  jobs,             \* the jobs held by the broker, in the order they were added
  workers,          \* the Worker instances of this process
  lastStatus,       \* the reply of a getJobStatus call that has just returned
  scrapes,          \* the scrapeWebsite calls: position and outcome
  browsers,         \* number of browser instances that are open
  usageRecords,     \* the rows of the usage_records table, in insertion order
  probe,            \* the latest call of a pure function: argument and value
  otpVerifications, \* the rows of the otp_verifications table, by createdAt
  users,            \* the rows of the users table
  verifyCalls       \* the verifyOtp calls: position, what was read, reply

vars == <<REDIS_AVAILABLE, bullmq, now, calls, jobs, workers, lastStatus,
          scrapes, browsers, usageRecords, probe, otpVerifications, users,
          verifyCalls>>

Queue == bullmq
Worker == bullmq

\* ------------------------------------------------------------------------
\* Job queue API: submit (addContentGenerationJob / addNicheAnalysisJob)
\* ------------------------------------------------------------------------
\* Options passed to queue.add
ContentJobOpts == [attempts |-> 3, backoff |-> [type |-> "exponential", delay |-> 2000]]
NicheJobOpts == [attempts |-> 2, backoff |-> [type |-> "exponential", delay |-> 5000]]

JobOpts(kind) == IF kind = CONTENT THEN ContentJobOpts ELSE NicheJobOpts

\* The broker numbers the jobs of each queue 1, 2, 3, ...
NextBrokerId(queueName) ==
  NumToStr(Cardinality({i \in DOMAIN jobs : jobs[i].queue = queueName}) + 1)

\* The job queue.add creates; runs counts the calls of the processor with
\* it, call is the submit call it comes from
NewJob(c, kind, data) ==
  [queue |-> kind, id |-> NextBrokerId(kind), data |-> data, opts |-> JobOpts(kind),
   state |-> "waiting", attemptsMade |-> 0, runs |-> 0,
   returnvalue |-> None, failedReason |-> "", call |-> c]

\* A direct run tagged like a queued job
DirectJobId_JobTag(t) == JobPrefix \o NumToStr(t)

\* `direct-${Date.now()}`
DirectJobId(t) == DirectPrefix \o NumToStr(t)

\* job.id || `job-${Date.now()}`
QueuedJobId(job, t) == IF job.id # <<>> THEN job.id ELSE JobPrefix \o NumToStr(t)

\* if (!REDIS_AVAILABLE || !Queue)
NoBroker == ~REDIS_AVAILABLE \/ ~Queue

\* A submit call that has just been made; ran lists the payloads with which
\* the pipeline was started in the caller's context
NewCall(kind, data) ==
  [pc |-> "called", kind |-> kind, data |-> data, enq |-> "none", ran |-> <<>>,
   jobId |-> <<>>, result |-> None, error |-> ""]

\* const result = await execute...(data): the call starts the pipeline in
\* the caller's context and awaits it
StartDirect(call) ==
  [call EXCEPT !.pc = "direct", !.ran = Append(@, call.data)]

\* The return after queue.add is missing: the call goes on to run the pipeline
ReturnQueued_FallsThrough(call, job, t) ==
  [call EXCEPT !.pc = "direct", !.enq = "ok", !.ran = Append(@, call.data)]

\* return { jobId: job.id || `job-${Date.now()}` }
ReturnQueued(call, job, t) ==
  [call EXCEPT !.pc = "returned", !.enq = "ok", !.jobId = QueuedJobId(job, t)]

\* The catch block rethrows instead of falling back
CatchEnqueue_Rethrows(call, outcome) ==
  [call EXCEPT !.pc = "thrown", !.enq = outcome, !.error = "Queue failed"]

\* catch (error) { ... const result = await execute...(data); ... }
CatchEnqueue(call, outcome) ==
  [StartDirect(call) EXCEPT !.enq = outcome]

\* What new Queue(...) / queue.add(...) can do: resolve with the job, throw
\* before the broker took the job, or throw although the broker took it.
EnqueueOutcomes == {"ok", "throws", "throws_accepted"}

AddJob(limit, kind, data, outcome) ==
  /\ Len(calls) < limit
  /\ LET c == Len(calls) + 1
         call == NewCall(kind, data)
         job == NewJob(c, kind, data)
     IN IF NoBroker
          THEN /\ calls' = Append(calls, StartDirect(call))
               /\ jobs' = jobs
          ELSE /\ jobs' = IF outcome = "throws" THEN jobs ELSE Append(jobs, job)
               /\ calls' = Append(calls,
                    IF outcome = "ok" THEN ReturnQueued(call, job, now)
                    ELSE CatchEnqueue(call, outcome))
  /\ lastStatus' = None
  /\ UNCHANGED <<REDIS_AVAILABLE, bullmq, now, workers, scrapes, browsers,
                 usageRecords, probe,
                 otpVerifications, users, verifyCalls>>

addContentGenerationJob(limit, outcomes) ==
  \E data \in ContentRequests, outcome \in outcomes :
    AddJob(limit, CONTENT, data, outcome)

addUnknownPlatformJob(limit, outcomes) ==
  \E data \in UnknownPlatformRequests, outcome \in outcomes :
    AddJob(limit, CONTENT, data, outcome)

addNicheAnalysisJob(limit, outcomes) ==
  \E data \in NicheRequests, outcome \in outcomes :
    AddJob(limit, NICHE, data, outcome)

\* A failed direct run is started once more instead of being propagated
SettleDirect_Retries(call, r, t) ==
  IF r.ok
    THEN [call EXCEPT !.pc = "returned", !.jobId = DirectPrefix \o NumToStr(t),
                      !.result = r.value]
    ELSE [call EXCEPT !.ran = Append(@, call.data)]

\* The awaited pipeline settles: the call returns { jobId, result } or the
\* rejection propagates to the caller of submit.
SettleDirect(call, r, t) ==
  IF r.ok
    THEN [call EXCEPT !.pc = "returned", !.jobId = DirectJobId(t), !.result = r.value]
    ELSE [call EXCEPT !.pc = "thrown", !.error = r.error]

\* Date.now() is read when the run has settled: t is that reading, not
\* before the previous one
DirectSettles(c) ==
  /\ calls[c].pc = "direct"
  /\ \E env \in Envs, t \in now..MaxClock :
       /\ calls' = [calls EXCEPT ![c] =
                     SettleDirect(@, Pipeline(@.kind, @.data, env), t)]
       /\ now' = t
  /\ lastStatus' = None
  /\ UNCHANGED <<REDIS_AVAILABLE, bullmq, jobs, workers, scrapes, browsers,
                 usageRecords, probe,
                 otpVerifications, users, verifyCalls>>

\* ------------------------------------------------------------------------
\* Callers of the pipelines (server/db): persistence and usage accounting
\* ------------------------------------------------------------------------
\* db.insert(usageRecords).values({ userId, usageType, quantity: 1, ... }),
\* with the call the row is written for
UsageRow(c, usageType) == [call |-> c, usageType |-> usageType, quantity |-> 1]

\* saveGeneratedContent: the content item is inserted, then one usage row
saveGeneratedContent(rows, c) == Append(rows, UsageRow(c, "post_generated"))

\* generateContentAsync after `await addContentGenerationJob(request)`: with
\* a result (direct run) it saves the content and answers "completed",
\* without one it answers "queued"
generateContentAsyncReturns(c) ==
  /\ calls[c].kind = CONTENT
  /\ calls[c].pc = "returned"
  /\ IF calls[c].result # None
       THEN /\ usageRecords' = saveGeneratedContent(usageRecords, c)
            /\ calls' = [calls EXCEPT ![c].pc = "completed"]
       ELSE /\ usageRecords' = usageRecords
            /\ calls' = [calls EXCEPT ![c].pc = "queued"]
  /\ lastStatus' = None
  /\ UNCHANGED <<REDIS_AVAILABLE, bullmq, now, jobs, workers, scrapes, browsers,
                 probe,
                 otpVerifications, users, verifyCalls>>

\* analyzeWebsite: analyzeNiche is awaited in the caller, without the
\* router; when it resolves the profile is updated and one usage row is
\* written; when it rejects the error is rethrown
analyzeWebsite(limit) ==
  /\ Len(calls) < limit
  /\ \E data \in NicheRequests, env \in Envs :
       LET c == Len(calls) + 1
           call == [NewCall(NICHE, data) EXCEPT !.ran = <<data>>]
           r == analyzeNiche(data, env.scrape, env.llm)
       IN IF r.ok
            THEN /\ calls' = Append(calls,
                      [call EXCEPT !.pc = "completed", !.result = r.value])
                 /\ usageRecords' = Append(usageRecords, UsageRow(c, "analysis_run"))
            ELSE /\ calls' = Append(calls,
                      [call EXCEPT !.pc = "thrown", !.error = r.error])
                 /\ usageRecords' = usageRecords
  /\ lastStatus' = None
  /\ UNCHANGED <<REDIS_AVAILABLE, bullmq, now, jobs, workers, scrapes, browsers,
                 probe,
                 otpVerifications, users, verifyCalls>>

\* ------------------------------------------------------------------------
\* Workers
\* ------------------------------------------------------------------------
ContentWorker == [queue |-> CONTENT, concurrency |-> 5]
NicheWorker == [queue |-> NICHE, concurrency |-> 2]

\* No Worker is constructed
WorkersAfterInit_None(ws) == ws

\* The body of initializeWorkers(): the Worker instances it leaves behind
WorkersAfterInit(ws) ==
  IF ~REDIS_AVAILABLE \/ ~Worker THEN ws
  ELSE ws \o <<ContentWorker, NicheWorker>>

initializeWorkers ==
  /\ Len(workers) < 2 * (1 + MaxInits)
  /\ workers' = WorkersAfterInit(workers)
  /\ lastStatus' = None
  /\ UNCHANGED <<REDIS_AVAILABLE, bullmq, now, calls, jobs, scrapes, browsers,
                 usageRecords, probe,
                 otpVerifications, users, verifyCalls>>

\* The jobs of a queue that workers are executing
Active(queueName) ==
  {i \in DOMAIN jobs : jobs[i].state = "active" /\ jobs[i].queue = queueName}

\* The number of jobs the Worker instances of a queue execute at once: each
\* instance takes jobs on its own, up to its concurrency
RECURSIVE Slots(_, _)
Slots(ws, queueName) ==
  IF ws = <<>> THEN 0
  ELSE (IF Head(ws).queue = queueName THEN Head(ws).concurrency ELSE 0)
       + Slots(Tail(ws), queueName)

\* A worker with a free slot takes a waiting job of its queue and calls its
\* processor with it
WorkerTakes(j) ==
  /\ jobs[j].state = "waiting"
  /\ Cardinality(Active(jobs[j].queue)) < Slots(workers, jobs[j].queue)
  /\ jobs' = [jobs EXCEPT ![j].state = "active", ![j].runs = @ + 1]
  /\ lastStatus' = None
  /\ UNCHANGED <<REDIS_AVAILABLE, bullmq, now, calls, workers, scrapes, browsers,
                 usageRecords, probe,
                 otpVerifications, users, verifyCalls>>

\* The attempts are counted one short: one retry too many
AttemptSettled_OneMore(job, r) ==
  IF r.ok
    THEN [job EXCEPT !.state = "completed", !.attemptsMade = @ + 1,
                     !.returnvalue = r.value]
  ELSE IF job.attemptsMade < job.opts.attempts
    THEN [job EXCEPT !.state = "delayed", !.attemptsMade = @ + 1,
                     !.failedReason = r.error]
  ELSE [job EXCEPT !.state = "failed", !.attemptsMade = @ + 1,
                   !.failedReason = r.error]

\* The broker's treatment of a settled attempt: the return value completes
\* the job; a throw is retried after the backoff while attempts remain
AttemptSettled(job, r) ==
  IF r.ok
    THEN [job EXCEPT !.state = "completed", !.attemptsMade = @ + 1,
                     !.returnvalue = r.value]
  ELSE IF job.attemptsMade + 1 < job.opts.attempts
    THEN [job EXCEPT !.state = "delayed", !.attemptsMade = @ + 1,
                     !.failedReason = r.error]
  ELSE [job EXCEPT !.state = "failed", !.attemptsMade = @ + 1,
                   !.failedReason = r.error]

\* The processor of the worker settles
WorkerSettles(j) ==
  /\ jobs[j].state = "active"
  /\ \E env \in Envs :
       jobs' = [jobs EXCEPT ![j] =
                  AttemptSettled(@, Pipeline(@.queue, @.data, env))]
  /\ lastStatus' = None
  /\ UNCHANGED <<REDIS_AVAILABLE, bullmq, now, calls, workers, scrapes, browsers,
                 usageRecords, probe,
                 otpVerifications, users, verifyCalls>>

\* Failed jobs are put back on the queue as well
BackoffElapsed_RequeuesFailed(j) ==
  /\ jobs[j].state \in {"delayed", "failed"}
  /\ jobs' = [jobs EXCEPT ![j].state = "waiting"]
  /\ lastStatus' = None
  /\ UNCHANGED <<REDIS_AVAILABLE, bullmq, now, calls, workers, scrapes, browsers,
                 usageRecords, probe,
                 otpVerifications, users, verifyCalls>>

\* The backoff delay of a failed attempt has passed
BackoffElapsed(j) ==
  /\ jobs[j].state = "delayed"
  /\ jobs' = [jobs EXCEPT ![j].state = "waiting"]
  /\ lastStatus' = None
  /\ UNCHANGED <<REDIS_AVAILABLE, bullmq, now, calls, workers, scrapes, browsers,
                 usageRecords, probe,
                 otpVerifications, users, verifyCalls>>

\* ------------------------------------------------------------------------
\* Job status
\* ------------------------------------------------------------------------
DirectNote == [message |-> "Job executed directly (no Redis queue)"]

\* What new Queue(...) / queue.getJob / job.getState can do: resolve, throw
\* an Error, or throw a value that is not an Error
QueryOutcomes == {"ok", "throws_error", "throws_other"}

\* The id is looked up without regard to the queue
FindJob_AnyQueue(queueName, jobId) ==
  {i \in DOMAIN jobs : jobs[i].id = jobId}

\* queue.getJob(jobId): the job of that queue with that id, if any
FindJob(queueName, jobId) ==
  {i \in DOMAIN jobs : jobs[i].queue = queueName /\ jobs[i].id = jobId}

\* The broker check comes before the check of the local tag
getJobStatus_BrokerFirst(queueName, jobId, outcome) ==
  IF NoBroker
    THEN [status |-> "unknown", result |-> None, error |-> "Redis not available",
          queried |-> FALSE]
  ELSE IF StartsWith(jobId, DirectPrefix)
    THEN [status |-> "completed", result |-> DirectNote, error |-> "", queried |-> FALSE]
  ELSE IF outcome # "ok"
    THEN [status |-> "unknown", result |-> None, error |-> "Unknown error",
          queried |-> TRUE]
  ELSE IF FindJob(queueName, jobId) = {}
    THEN [status |-> "unknown", result |-> None, error |-> "Job not found",
          queried |-> TRUE]
  ELSE LET job == jobs[CHOOSE i \in FindJob(queueName, jobId) : TRUE] IN
    [status |-> job.state, result |-> job.returnvalue, error |-> job.failedReason,
     queried |-> TRUE]

\* A broker error is reported as a failed job
getJobStatus_FailedOnError(queueName, jobId, outcome) ==
  IF StartsWith(jobId, DirectPrefix)
    THEN [status |-> "completed", result |-> DirectNote, error |-> "", queried |-> FALSE]
  ELSE IF NoBroker
    THEN [status |-> "unknown", result |-> None, error |-> "Redis not available",
          queried |-> FALSE]
  ELSE IF outcome # "ok"
    THEN [status |-> "failed", result |-> None, error |-> "Unknown error",
          queried |-> TRUE]
  ELSE IF FindJob(queueName, jobId) = {}
    THEN [status |-> "unknown", result |-> None, error |-> "Job not found",
          queried |-> TRUE]
  ELSE LET job == jobs[CHOOSE i \in FindJob(queueName, jobId) : TRUE] IN
    [status |-> job.state, result |-> job.returnvalue, error |-> job.failedReason,
     queried |-> TRUE]

getJobStatus(queueName, jobId, outcome) ==
  IF StartsWith(jobId, DirectPrefix)
    THEN [status |-> "completed", result |-> DirectNote, error |-> "", queried |-> FALSE]
  ELSE IF NoBroker
    THEN [status |-> "unknown", result |-> None, error |-> "Redis not available",
          queried |-> FALSE]
  ELSE IF outcome = "throws_error"
    THEN [status |-> "unknown", result |-> None, error |-> "connect ECONNREFUSED",
          queried |-> TRUE]
  ELSE IF outcome = "throws_other"
    THEN [status |-> "unknown", result |-> None, error |-> "Unknown error",
          queried |-> TRUE]
  ELSE IF FindJob(queueName, jobId) = {}
    THEN [status |-> "unknown", result |-> None, error |-> "Job not found",
          queried |-> TRUE]
  ELSE LET job == jobs[CHOOSE i \in FindJob(queueName, jobId) : TRUE] IN
    [status |-> job.state, result |-> job.returnvalue, error |-> job.failedReason,
     queried |-> TRUE]

\* The jobIds a caller asks about: those it was given, those of the broker,
\* and some it made up
StatusIds ==
  {calls[c].jobId : c \in {d \in DOMAIN calls : calls[d].pc = "returned"}}
    \cup {jobs[i].id : i \in DOMAIN jobs}
    \cup {DirectPrefix \o <<"x">>, <<"d", "i", "r", "e", "c", "t">>, <<"9">>}

StatusQueues == QueueNames

GetJobStatus ==
  /\ \E queueName \in StatusQueues, jobId \in StatusIds, outcome \in QueryOutcomes :
       lastStatus' = [queueName |-> queueName, jobId |-> jobId, outcome |-> outcome,
                      reply |-> getJobStatus(queueName, jobId, outcome)]
  /\ UNCHANGED <<REDIS_AVAILABLE, bullmq, now, calls, jobs, workers,
                 scrapes, browsers, usageRecords, probe,
                 otpVerifications, users, verifyCalls>>

\* A caller asks a queue for the job with an id that the broker has given
\* out, and the broker answers
GetJobResult ==
  /\ \E queueName \in StatusQueues, jobId \in {jobs[i].id : i \in DOMAIN jobs} :
       lastStatus' = [queueName |-> queueName, jobId |-> jobId, outcome |-> "ok",
                      reply |-> getJobStatus(queueName, jobId, "ok")]
  /\ UNCHANGED <<REDIS_AVAILABLE, bullmq, now, calls, jobs, workers,
                 scrapes, browsers, usageRecords, probe,
                 otpVerifications, users, verifyCalls>>

\* ------------------------------------------------------------------------
\* Page scraper: scrapeWebsite(url)
\* ------------------------------------------------------------------------
Scrapes == 1..MaxScrapes

Urls == {"https://example.com", "https://this-domain-definitely-does-not-exist-12345.com"}
Unreachable == {"https://this-domain-definitely-does-not-exist-12345.com"}

IdleScrape == [pc |-> "idle", url |-> "", browser |-> FALSE, open |-> FALSE, error |-> ""]

\* scrapeWebsite is called: let browser; try {
ScrapeCalled(s) ==
  /\ scrapes[s].pc = "idle"
  /\ s > 1 => scrapes[s - 1].pc # "idle"
  /\ \E url \in Urls :
       scrapes' = [scrapes EXCEPT ![s] = [@ EXCEPT !.pc = "launch", !.url = url]]
  /\ lastStatus' = None
  /\ UNCHANGED <<REDIS_AVAILABLE, bullmq, now, calls, jobs, workers, browsers,
                 usageRecords, probe,
                 otpVerifications, users, verifyCalls>>

\* browser = await puppeteer.launch(...)
Launch(s) ==
  /\ scrapes[s].pc = "launch"
  /\ \E outcome \in {"ok", "throws"} :
       IF outcome = "ok"
         THEN /\ scrapes' = [scrapes EXCEPT ![s] =
                   [@ EXCEPT !.pc = "navigate", !.browser = TRUE, !.open = TRUE]]
              /\ browsers' = browsers + 1
         ELSE /\ scrapes' = [scrapes EXCEPT ![s] =
                   [@ EXCEPT !.pc = "catch", !.error = "launch failed"]]
              /\ browsers' = browsers
  /\ lastStatus' = None
  /\ UNCHANGED <<REDIS_AVAILABLE, bullmq, now, calls, jobs, workers,
                 usageRecords, probe,
                 otpVerifications, users, verifyCalls>>

\* page = await browser.newPage(); setUserAgent; await page.goto(url, ...)
Navigate(s) ==
  /\ scrapes[s].pc = "navigate"
  /\ \E outcome \in {"ok", "throws"} :
       /\ scrapes[s].url \in Unreachable => outcome = "throws"
       /\ scrapes' = [scrapes EXCEPT ![s] =
            IF outcome = "ok" THEN [@ EXCEPT !.pc = "extract"]
            ELSE [@ EXCEPT !.pc = "catch", !.error = "navigation failed"]]
  /\ lastStatus' = None
  /\ UNCHANGED <<REDIS_AVAILABLE, bullmq, now, calls, jobs, workers, browsers,
                 usageRecords, probe,
                 otpVerifications, users, verifyCalls>>

\* page.content(), page.title(), the meta tags, the text, the links
Extract(s) ==
  /\ scrapes[s].pc = "extract"
  /\ \E outcome \in {"ok", "throws"} :
       scrapes' = [scrapes EXCEPT ![s] =
         IF outcome = "ok" THEN [@ EXCEPT !.pc = "close"]
         ELSE [@ EXCEPT !.pc = "catch", !.error = "extraction failed"]]
  /\ lastStatus' = None
  /\ UNCHANGED <<REDIS_AVAILABLE, bullmq, now, calls, jobs, workers, browsers,
                 usageRecords, probe,
                 otpVerifications, users, verifyCalls>>

\* What browser.close() can do: resolve with the browser closed, or throw,
\* with the browser closed or still open
CloseOutcomes == {"ok", "throws_closed", "throws_open"}

\* Is the browser instance open after a close() with that outcome
OpenAfterClose(open, outcome) == open /\ outcome = "throws_open"

Released(open, outcome) == IF open /\ ~OpenAfterClose(open, outcome) THEN 1 ELSE 0

\* await browser.close(); return {...}
Close(s) ==
  /\ scrapes[s].pc = "close"
  /\ \E outcome \in CloseOutcomes :
       /\ scrapes' = [scrapes EXCEPT ![s] =
            IF outcome = "ok" THEN [@ EXCEPT !.pc = "returned", !.open = FALSE]
            ELSE [@ EXCEPT !.pc = "catch", !.error = "close failed",
                           !.open = OpenAfterClose(@, outcome)]]
       /\ browsers' = browsers - Released(scrapes[s].open, outcome)
  /\ lastStatus' = None
  /\ UNCHANGED <<REDIS_AVAILABLE, bullmq, now, calls, jobs, workers,
                 usageRecords, probe,
                 otpVerifications, users, verifyCalls>>

\* catch (error) { if (browser) { await browser.close(); } ... throw new Error(...) }
Catch(s) ==
  /\ scrapes[s].pc = "catch"
  /\ IF scrapes[s].browser
       THEN \E outcome \in CloseOutcomes :
              /\ scrapes' = [scrapes EXCEPT ![s] =
                   [@ EXCEPT !.pc = "thrown",
                             !.open = OpenAfterClose(@, outcome),
                             !.error = IF outcome = "ok" THEN "Failed to scrape website"
                                       ELSE "close failed"]]
              /\ browsers' = browsers - Released(scrapes[s].open, outcome)
       ELSE /\ scrapes' = [scrapes EXCEPT ![s] =
                   [@ EXCEPT !.pc = "thrown", !.error = "Failed to scrape website"]]
            /\ browsers' = browsers
  /\ lastStatus' = None
  /\ UNCHANGED <<REDIS_AVAILABLE, bullmq, now, calls, jobs, workers,
                 usageRecords, probe,
                 otpVerifications, users, verifyCalls>>

\* ------------------------------------------------------------------------
\* Validation of generated content: validateContent(content)
\* ------------------------------------------------------------------------
RECURSIVE Strings(_, _)
Strings(alphabet, n) ==
  IF n = 0 THEN {<<>>}
  ELSE Strings(alphabet, n - 1)
         \cup {Append(str, ch) : str \in Strings(alphabet, n - 1), ch \in alphabet}

\* The contents given to validateContent: platforms with and without an
\* entry, bodies that are missing, empty, blank or not, character counts
\* and numbers of hashtags at, below and above every limit of the table
\* (and the 300 characters of a post too long for twitter)
ContentPlatforms == Platforms \cup {"myspace"} \cup ObjectPrototypeKeys

ContentBodies == {Undefined} \cup {Defined(str) : str \in Strings({" ", "a"}, MaxBodyLen)}

CharacterCounts ==
  {0} \cup {PLATFORM_SPECS[p].maxLength + d : p \in Platforms, d \in {0, 1, 20}}

HashtagLists ==
  {Undefined, Defined(<<>>)}
    \cup {Defined([i \in 1..(PLATFORM_SPECS[p].hashtagLimit + d) |-> "tag"]) :
            p \in Platforms, d \in {0, 1}}

GeneratedContents ==
  [body : ContentBodies, hashtags : HashtagLists, platform : ContentPlatforms,
   characterCount : CharacterCounts]

ValidateContent ==
  /\ probe = None
  /\ \E content \in GeneratedContents :
       probe' = [fn |-> "validateContent", arg |-> content,
                 value |-> validateContent(content),
                 after |-> ContentAfterValidation(content)]
  /\ UNCHANGED <<REDIS_AVAILABLE, bullmq, now, calls, jobs, workers, lastStatus,
                 scrapes, browsers, usageRecords,
                 otpVerifications, users, verifyCalls>>

\* ------------------------------------------------------------------------
\* Validation of an analysis: validateAnalysis(analysis)
\* ------------------------------------------------------------------------
ListOf(n) == [i \in 1..n |-> "item"]

\* A string or a list that may be missing, of every length up to a bound
OptionalStrings(n) == {Undefined} \cup {Defined(str) : str \in Strings({"a"}, n)}
OptionalLists(n) == {Undefined} \cup {Defined(ListOf(k)) : k \in 0..n}

\* A complete analysis: every list has MaxListLen entries, every string is
\* there
CompleteAnalysis ==
  [industry |-> Defined(<<"a", "a", "a">>),
   brandVoice |-> Defined([tone |-> Defined(<<"a">>),
                           keywords |-> Defined(ListOf(MaxListLen)),
                           writingStyle |-> Defined(<<"a">>)]),
   targetAudience |-> Defined([demographics |-> Defined(<<"a">>),
                               painPoints |-> Defined(ListOf(MaxListLen)),
                               interests |-> Defined(ListOf(MaxListLen))]),
   competitors |-> Defined(ListOf(MaxListLen)),
   keywords |-> Defined(ListOf(MaxListLen)),
   contentStrategy |-> Defined([topics |-> Defined(ListOf(MaxListLen)),
                                bestTimes |-> Defined(ListOf(MaxListLen)),
                                platforms |-> Defined(ListOf(MaxListLen))]),
   autopilotConfig |-> Defined([contentTypes |-> Defined(ListOf(MaxListLen)),
                                postingSchedule |-> Defined(<<"a">>)])]

\* Analyses that differ from the complete one in the fields validateAnalysis
\* reads: each may be missing, with its object or alone, or too short
AnalysesByCheckedFields ==
  { [CompleteAnalysis EXCEPT
       !.industry = industry,
       !.brandVoice = brandVoice,
       !.targetAudience = targetAudience,
       !.contentStrategy = contentStrategy] :
      industry \in OptionalStrings(MaxIndustryLen),
      brandVoice \in {Undefined} \cup
        {Defined([ValueOf(CompleteAnalysis.brandVoice) EXCEPT
                    !.tone = tone, !.keywords = keywords]) :
           tone \in OptionalStrings(1), keywords \in OptionalLists(MaxListLen)},
      targetAudience \in {Undefined} \cup
        {Defined([ValueOf(CompleteAnalysis.targetAudience) EXCEPT
                    !.demographics = demographics]) :
           demographics \in OptionalStrings(1)},
      contentStrategy \in {Undefined} \cup
        {Defined([ValueOf(CompleteAnalysis.contentStrategy) EXCEPT
                    !.topics = topics, !.platforms = platforms]) :
           topics \in OptionalLists(MaxListLen), platforms \in OptionalLists(MaxListLen)} }

\* Analyses that differ from the complete one in the other fields: a list
\* is empty or full, a string is empty or not, and there is at least one
\* platform
ShortOrFull == {Defined(ListOf(0)), Defined(ListOf(MaxListLen))}
EmptyOrNot == {Defined(<<>>), Defined(<<"a">>)}

AnalysesByOtherFields ==
  { [CompleteAnalysis EXCEPT
       !.brandVoice = Defined([ValueOf(@) EXCEPT !.writingStyle = writingStyle]),
       !.targetAudience = Defined([ValueOf(@) EXCEPT !.painPoints = painPoints,
                                                     !.interests = interests]),
       !.competitors = competitors,
       !.keywords = keywords,
       !.contentStrategy = Defined([ValueOf(@) EXCEPT !.bestTimes = bestTimes,
                                                      !.platforms = platforms]),
       !.autopilotConfig = Defined([ValueOf(@) EXCEPT !.contentTypes = contentTypes,
                                                      !.postingSchedule = postingSchedule])] :
      writingStyle \in EmptyOrNot, painPoints \in ShortOrFull, interests \in ShortOrFull,
      competitors \in ShortOrFull, keywords \in ShortOrFull, bestTimes \in ShortOrFull,
      platforms \in {Defined(ListOf(k)) : k \in 1..MaxListLen},
      contentTypes \in ShortOrFull, postingSchedule \in EmptyOrNot }

NicheAnalysisResults == AnalysesByCheckedFields \cup AnalysesByOtherFields

ValidateAnalysis ==
  /\ probe = None
  /\ \E analysis \in NicheAnalysisResults :
       probe' = [fn |-> "validateAnalysis", arg |-> analysis,
                 value |-> validateAnalysis(analysis),
                 after |-> AnalysisAfterValidation(analysis)]
  /\ UNCHANGED <<REDIS_AVAILABLE, bullmq, now, calls, jobs, workers, lastStatus,
                 scrapes, browsers, usageRecords,
                 otpVerifications, users, verifyCalls>>

\* ------------------------------------------------------------------------
\* Parsing of model responses
\* ------------------------------------------------------------------------
\* The texts that are one JSON object
JsonTexts ==
  {text \in Strings(JsonTokens \cup Whitespace, MaxJsonLen) : JSONParse(text).ok}

\* What a model writes around a JSON object: words, and braces too
Prose == Strings({"x", "{", "}"}, MaxProseLen)

ParseResponses ==
  /\ probe = None
  /\ \E json \in JsonTexts, before \in Prose, after \in Prose :
       probe' = [fn |-> "ParseResponse",
                 arg |-> [json |-> json, before |-> before, after |-> after],
                 value |-> [pure |-> ParseResponse(json),
                            wrapped |-> ParseResponse(before \o json \o after)]]
  /\ UNCHANGED <<REDIS_AVAILABLE, bullmq, now, calls, jobs, workers, lastStatus,
                 scrapes, browsers, usageRecords,
                 otpVerifications, users, verifyCalls>>

\* ------------------------------------------------------------------------
\* Content runs: generateContentWithImage(request)
\* ------------------------------------------------------------------------
\* Requests with and without an image and an image style, for a platform
\* of the table, one without an entry and an inherited property name
GenerateRequests ==
  [topic : {"topic"}, platform : {"twitter", "myspace", "constructor"},
   includeImage : BOOLEAN, imageStyle : {Undefined, Defined("vivid")}]

\* The texts a model answers with: objects, numbers and prose
ResponseTexts == Strings({"{", "}", "k", JsonNumber, "x"}, MaxResponseLen)

\* Bodies that are missing, empty, short, and at or next to the limit of
\* twitter once hashtags are added
ResponseBodies ==
  {Undefined, Defined(<<>>), Defined(<<"a", " ", "a">>)}
    \cup {Defined([i \in 1..(PLATFORM_SPECS["twitter"].maxLength + d) |-> "a"]) :
            d \in {-2, 0, 1}}

ResponseHashtags ==
  {Undefined, Defined(<<>>), Defined(<<<<"#", "a">>>>),
   Defined(<<<<"#", "a">>, <<"#", "b">>>>)}

\* The members vary where the text holds an object
LLMResponses ==
  {LLMResponse(TRUE, <<>>, Undefined, Undefined)}
    \cup {LLMResponse(FALSE, text, Undefined, Undefined) : text \in ResponseTexts}
    \cup {LLMResponse(FALSE, text, body, hashtags) :
            text \in {t \in ResponseTexts : BraceSpan(t) # Undefined},
            body \in ResponseBodies, hashtags \in ResponseHashtags}

GenerateContents ==
  /\ probe = None
  /\ \E request \in GenerateRequests, response \in LLMResponses,
        image \in ImageCollaborator :
       /\ ~request.includeImage => image = "unconfigured"
       /\ probe' = [fn |-> "generateContentWithImage",
                    arg |-> [request |-> request, response |-> response,
                             image |-> image],
                    text |-> GenerateContentRun(request, response),
                    validation |-> Validation(GenerateContentRun(request, response)),
                    value |-> GenerateContentWithImageRun(request, response, image),
                    invokes |-> GenerateContentWithImageInvokes(request, response, image),
                    after |-> RequestAfterGenerate(request)]
  /\ UNCHANGED <<REDIS_AVAILABLE, bullmq, now, calls, jobs, workers, lastStatus,
                 scrapes, browsers, usageRecords,
                 otpVerifications, users, verifyCalls>>

\* ------------------------------------------------------------------------
\* Analysis runs: analyzeNiche(request)
\* ------------------------------------------------------------------------
AnalyzeRequests ==
  [websiteUrl : {"https://example.com", "http://unreachable.invalid"},
   deepScrape : {Undefined, Defined(TRUE)}]

\* A failure of the network can be the cause on either side
FailureCauses == {"fetch failed", "timeout"}

ScrapeResults == {ScrapeResult(TRUE, "")} \cup {ScrapeResult(FALSE, c) : c \in FailureCauses}

AnalysisResponses ==
  {[rejects |-> TRUE, cause |-> c, content |-> <<>>] : c \in FailureCauses}
    \cup {[rejects |-> FALSE, cause |-> "", content |-> text] : text \in ResponseTexts}

AnalyzeNiches ==
  /\ probe = None
  /\ \E request \in AnalyzeRequests, scrape \in ScrapeResults,
        response \in AnalysisResponses :
       probe' = [fn |-> "analyzeNiche",
                 arg |-> [request |-> request, scrape |-> scrape,
                          response |-> response],
                 value |-> AnalyzeNicheRun(request, scrape, response),
                 invokes |-> AnalyzeNicheInvokes(request, scrape, response),
                 after |-> RequestAfterAnalyze(request)]
  /\ UNCHANGED <<REDIS_AVAILABLE, bullmq, now, calls, jobs, workers, lastStatus,
                 scrapes, browsers, usageRecords,
                 otpVerifications, users, verifyCalls>>

\* ------------------------------------------------------------------------
\* Documents given to the extractor
\* ------------------------------------------------------------------------
\* A text of n characters that begins with the number of its element, so
\* that the texts of a document differ; padded: with whitespace around it
Text(id, n, padded) ==
  LET num == NumToStr(id)
      text == IF n <= Len(num) THEN SubSeq(num, 1, n)
              ELSE num \o [i \in 1..(n - Len(num)) |-> "a"]
  IN IF padded THEN <<" ">> \o text \o <<" ">> ELSE text

\* The kinds of elements: tag, class, length of the text without the
\* whitespace around it, and the length of the text of a <p> child, if any
Kind(tag, class, n, padded, child) ==
  [tag |-> tag, class |-> class, n |-> n, padded |-> padded, child |-> child]

\* Values of class attributes
CLASS_SERVICES == <<"s", "e", "r", "v", "i", "c", "e", "s", "-", "g", "r", "i", "d">>
CLASS_PRODUCT == <<"p", "r", "o", "d", "u", "c", "t">>
CLASS_OFFER == <<"s", "p", "e", "c", "i", "a", "l", "-", "o", "f", "f", "e", "r">>
CLASS_FEEDBACK == <<"f", "e", "e", "d", "b", "a", "c", "k">>
CLASS_REVIEWS == <<"r", "e", "v", "i", "e", "w", "s">>
CLASS_HERO == <<"h", "e", "r", "o">>

ElementKinds ==
  { Kind("h1", <<>>, 4, TRUE, 0),            \* a heading
    Kind("h3", <<>>, 0, TRUE, 0),            \* a blank heading
    Kind("h4", <<>>, 4, FALSE, 0),           \* not a sought heading
    Kind("p", <<>>, 5, FALSE, 0),            \* <p>short</p>
    Kind("p", <<>>, 50, TRUE, 0),            \* 50 characters between whitespace
    Kind("p", <<>>, 60, FALSE, 0),           \* a paragraph of 60 characters
    Kind("p", CLASS_REVIEWS, 51, TRUE, 0),   \* a paragraph that is a review
    Kind("div", CLASS_SERVICES, 21, TRUE, 0),
    Kind("div", CLASS_PRODUCT, 20, FALSE, 0),
    Kind("li", CLASS_OFFER, 500, FALSE, 0),
    Kind("div", CLASS_FEEDBACK, 30, FALSE, 0),
    Kind("div", CLASS_HERO, 60, FALSE, 0),   \* none of the sought elements
    Kind("div", CLASS_SERVICES, 0, FALSE, 51) }

MakeElement(kind, id) ==
  Element(kind.tag, kind.class, Text(id, kind.n, kind.padded),
          IF kind.child = 0 THEN <<>>
          ELSE <<Element("p", <<>>, Text(id, kind.child, FALSE), <<>>)>>)

\* A document repeats a pattern of elements: once, or so often that a
\* list of the result reaches its limit
Patterns == Strings(ElementKinds, MaxPatternLen)

Repeats == {1} \cup {ListLimits[list] + 1 : list \in DOMAIN ListLimits}

Document(pattern, repeats) ==
  [i \in 1..(Len(pattern) * repeats) |->
     MakeElement(pattern[((i - 1) % Len(pattern)) + 1], i)]

ExtractStructuredContents ==
  /\ probe = None
  /\ \E pattern \in Patterns, repeats \in Repeats :
       /\ pattern = <<>> => repeats = 1
       /\ probe' = [fn |-> "extractStructuredContent",
                    arg |-> Document(pattern, repeats),
                    value |-> extractStructuredContent(Document(pattern, repeats))]
  /\ UNCHANGED <<REDIS_AVAILABLE, bullmq, now, calls, jobs, workers, lastStatus,
                 scrapes, browsers, usageRecords,
                 otpVerifications, users, verifyCalls>>

\* ------------------------------------------------------------------------
\* One-time passwords: verifyOtp(phoneNumber, code) (server/services/twilio-otp)
\* ------------------------------------------------------------------------
MAX_OTP_ATTEMPTS == 3

\* The phone number of the calls, the code that was sent to it and a code
\* that was not
Phone == "+15551234567"
SentCode == "123456"
Codes == {SentCode, "000000"}

\* createHash("sha256").update(code).digest("hex"): different codes are
\* taken to have different hashes
hashOtp(code) == <<"sha256", code>>

\* The row sendOtp inserts; expired stands for expiresAt <= now
OtpRow(id, code) ==
  [id |-> id, phoneNumber |-> Phone, codeHash |-> hashOtp(code), attempts |-> 0,
   verified |-> FALSE, expired |-> FALSE]

\* where phoneNumber = formattedPhone and verified = false and expiresAt > now
IsOpenOtp(row) == row.phoneNumber = Phone /\ ~row.verified /\ ~row.expired

\* The replies of verifyOtp
OtpReply(success, error, remaining, userId, isNewUser) ==
  [success |-> success, error |-> error, remainingAttempts |-> remaining,
   userId |-> userId, isNewUser |-> isNewUser]

OtpFailure(error, remaining) == OtpReply(FALSE, error, remaining, 0, FALSE)

\* The failed attempts verifyOtp has recorded for the record by now: the
\* calls that wrote the attempts column and replied "Invalid code"
FailedAttempts(id) ==
  Cardinality({c \in DOMAIN verifyCalls :
                 /\ verifyCalls[c].pc = "returned"
                 /\ verifyCalls[c].result.error = "Invalid code"
                 /\ verifyCalls[c].latestOtp.id = id})

\* A call of verifyOtp up to its first update: the select of the open
\* records of the phone and the check of the attempts of the latest one
VerifyCall(code, otpRecords) ==
  IF otpRecords = <<>>
    THEN [pc |-> "returned", code |-> code, latestOtp |-> None, existingUsers |-> <<>>,
          failedBefore |-> 0,
          result |-> OtpFailure("No valid OTP found. Please request a new code.", 0)]
  ELSE LET latestOtp == otpRecords[Len(otpRecords)] IN
    IF latestOtp.attempts >= MAX_OTP_ATTEMPTS
      THEN [pc |-> "returned", code |-> code, latestOtp |-> latestOtp,
            existingUsers |-> <<>>, failedBefore |-> FailedAttempts(latestOtp.id),
            result |-> OtpFailure("Too many failed attempts. Please request a new code.", 0)]
      ELSE [pc |-> "selected", code |-> code, latestOtp |-> latestOtp,
            existingUsers |-> <<>>, failedBefore |-> FailedAttempts(latestOtp.id),
            result |-> None]

VerifyOtpCalled ==
  /\ Len(verifyCalls) < MaxVerifyCalls
  /\ \E code \in Codes :
       verifyCalls' = Append(verifyCalls,
                             VerifyCall(code, SelectSeq(otpVerifications, IsOpenOtp)))
  /\ UNCHANGED <<REDIS_AVAILABLE, bullmq, now, calls, jobs, workers, lastStatus,
                 scrapes, browsers, usageRecords, probe, otpVerifications, users>>

\* update otpVerifications set ... where id = latestOtp.id
UpdateOtp(id, column, value) ==
  [i \in DOMAIN otpVerifications |->
     IF otpVerifications[i].id = id
       THEN [otpVerifications[i] EXCEPT ![column] = value]
       ELSE otpVerifications[i]]

\* The code is compared with the record that was read: a wrong code writes
\* the attempts that were read plus one and the call returns, the right
\* code marks the record as verified
OtpUpdated(c) ==
  /\ verifyCalls[c].pc = "selected"
  /\ LET call == verifyCalls[c]
         latestOtp == call.latestOtp
     IN IF hashOtp(call.code) # latestOtp.codeHash
          THEN /\ otpVerifications' = UpdateOtp(latestOtp.id, "attempts", latestOtp.attempts + 1)
               /\ verifyCalls' = [verifyCalls EXCEPT ![c] =
                    [call EXCEPT !.pc = "returned",
                                 !.result = OtpFailure("Invalid code",
                                   MAX_OTP_ATTEMPTS - latestOtp.attempts - 1)]]
          ELSE /\ otpVerifications' = UpdateOtp(latestOtp.id, "verified", TRUE)
               /\ verifyCalls' = [verifyCalls EXCEPT ![c].pc = "verified"]
  /\ UNCHANGED <<REDIS_AVAILABLE, bullmq, now, calls, jobs, workers, lastStatus,
                 scrapes, browsers, usageRecords, probe, users>>

\* select from users where phoneNumber = formattedPhone
UsersSelected(c) ==
  /\ verifyCalls[c].pc = "verified"
  /\ verifyCalls' = [verifyCalls EXCEPT ![c].pc = "found", ![c].existingUsers = users]
  /\ UNCHANGED <<REDIS_AVAILABLE, bullmq, now, calls, jobs, workers, lastStatus,
                 scrapes, browsers, usageRecords, probe, otpVerifications, users>>

\* The user that was found is updated, or a user is inserted, and the call
\* returns with success
UserSaved(c) ==
  /\ verifyCalls[c].pc = "found"
  /\ LET existingUsers == verifyCalls[c].existingUsers IN
       IF Len(existingUsers) > 0
         THEN /\ users' = [i \in DOMAIN users |->
                             IF users[i].id = existingUsers[1].id
                               THEN [users[i] EXCEPT !.phoneVerified = TRUE]
                               ELSE users[i]]
              /\ verifyCalls' = [verifyCalls EXCEPT ![c].pc = "returned",
                   ![c].result = OtpReply(TRUE, "", 0, existingUsers[1].id, FALSE)]
         ELSE /\ users' = Append(users, [id |-> Len(users) + 1, phoneNumber |-> Phone,
                                         phoneVerified |-> TRUE])
              /\ verifyCalls' = [verifyCalls EXCEPT ![c].pc = "returned",
                   ![c].result = OtpReply(TRUE, "", 0, Len(users) + 1, TRUE)]
  /\ UNCHANGED <<REDIS_AVAILABLE, bullmq, now, calls, jobs, workers, lastStatus,
                 scrapes, browsers, usageRecords, probe, otpVerifications>>

\* The ten minutes of a record are over
OtpExpires ==
  /\ \E i \in DOMAIN otpVerifications :
       /\ ~otpVerifications[i].expired
       /\ otpVerifications' = [otpVerifications EXCEPT ![i].expired = TRUE]
  /\ UNCHANGED <<REDIS_AVAILABLE, bullmq, now, calls, jobs, workers, lastStatus,
                 scrapes, browsers, usageRecords, probe, users, verifyCalls>>

\* ------------------------------------------------------------------------
\* Specifications
\* ------------------------------------------------------------------------
\* The module has been loaded: if (REDIS_AVAILABLE) { initializeWorkers(); }
Init ==
  /\ REDIS_AVAILABLE \in BOOLEAN
  /\ bullmq \in {b \in BOOLEAN : b => REDIS_AVAILABLE}
  /\ now = 0
  /\ calls = <<>>
  /\ jobs = <<>>
  /\ workers = IF REDIS_AVAILABLE THEN WorkersAfterInit(<<>>) ELSE <<>>
  /\ lastStatus = None
  /\ scrapes = [s \in Scrapes |-> IdleScrape]
  /\ browsers = 0
  /\ usageRecords = <<>>
  /\ probe = None
  /\ otpVerifications = <<OtpRow(1, SentCode)>>
  /\ users = <<>>
  /\ verifyCalls = <<>>

\* The router as this repository runs it: submissions, direct runs, and the
\* workers created at module load with their retries
Lifecycle(limit) ==
  \/ addContentGenerationJob(limit, {"ok", "throws"})
  \/ addNicheAnalysisJob(limit, {"ok", "throws"})
  \/ \E c \in DOMAIN calls : DirectSettles(c)
  \/ \E j \in DOMAIN jobs : WorkerTakes(j)
  \/ \E j \in DOMAIN jobs : WorkerSettles(j)
  \/ \E j \in DOMAIN jobs : BackoffElapsed(j)

Next == Lifecycle(MaxCalls)

Spec == Init /\ [][Next]_vars

\* The router while callers ask for the status of jobs
NextStatus ==
  \/ Lifecycle(MaxStatusCalls)
  \/ GetJobStatus

SpecStatus == Init /\ [][NextStatus]_vars

\* A burst of niche-analysis submissions that the broker accepts, in a
\* process that calls the exported initializeWorkers() again
InitWorkers ==
  /\ Init
  /\ REDIS_AVAILABLE /\ bullmq

NextWorkers ==
  \/ addNicheAnalysisJob(MaxBurst, {"ok"})
  \/ initializeWorkers
  \/ \E j \in DOMAIN jobs : WorkerTakes(j)
  \/ \E j \in DOMAIN jobs : WorkerSettles(j)
  \/ \E j \in DOMAIN jobs : BackoffElapsed(j)

SpecWorkers == InitWorkers /\ [][NextWorkers]_vars

\* Fair scheduling: a pipeline that was started settles (the collaborators
\* answer), a worker with a free slot takes a waiting job, and the backoff
\* delay of a delayed job elapses
Fairness ==
  /\ WF_vars(\E c \in DOMAIN calls : DirectSettles(c))
  /\ WF_vars(\E j \in DOMAIN jobs : WorkerTakes(j))
  /\ WF_vars(\E j \in DOMAIN jobs : WorkerSettles(j))
  /\ WF_vars(\E j \in DOMAIN jobs : BackoffElapsed(j))

\* The router with a broker, under that scheduling: jobs of both kinds are
\* enqueued, and a niche analysis whose enqueueing threw runs directly
NextFair ==
  \/ addContentGenerationJob(MaxCalls, {"ok"})
  \/ addNicheAnalysisJob(MaxCalls, {"ok", "throws"})
  \/ \E c \in DOMAIN calls : DirectSettles(c)
  \/ \E j \in DOMAIN jobs : WorkerTakes(j)
  \/ \E j \in DOMAIN jobs : WorkerSettles(j)
  \/ \E j \in DOMAIN jobs : BackoffElapsed(j)

SpecFair == InitWorkers /\ [][NextFair]_vars /\ Fairness

\* The scraper on its own: no job is submitted
InitScrape ==
  /\ Init
  /\ ~REDIS_AVAILABLE

NextScrape ==
  \/ \E s \in Scrapes : ScrapeCalled(s)
  \/ \E s \in Scrapes : Launch(s)
  \/ \E s \in Scrapes : Navigate(s)
  \/ \E s \in Scrapes : Extract(s)
  \/ \E s \in Scrapes : Close(s)
  \/ \E s \in Scrapes : Catch(s)

SpecScrape == InitScrape /\ [][NextScrape]_vars

\* Content generation with requests for known and unknown platforms
NextConfig ==
  \/ addContentGenerationJob(MaxCalls, {"ok", "throws"})
  \/ addUnknownPlatformJob(MaxCalls, {"ok", "throws"})
  \/ \E c \in DOMAIN calls : DirectSettles(c)
  \/ \E j \in DOMAIN jobs : WorkerTakes(j)
  \/ \E j \in DOMAIN jobs : WorkerSettles(j)
  \/ \E j \in DOMAIN jobs : BackoffElapsed(j)

SpecConfig == Init /\ [][NextConfig]_vars

\* The callers that account for usage: generateContentAsync through the
\* router, analyzeWebsite on its own
NextUsage ==
  \/ addContentGenerationJob(MaxCalls, {"ok", "throws"})
  \/ analyzeWebsite(MaxCalls)
  \/ \E c \in DOMAIN calls : DirectSettles(c)
  \/ \E c \in DOMAIN calls : generateContentAsyncReturns(c)
  \/ \E j \in DOMAIN jobs : WorkerTakes(j)
  \/ \E j \in DOMAIN jobs : WorkerSettles(j)
  \/ \E j \in DOMAIN jobs : BackoffElapsed(j)

SpecUsage == Init /\ [][NextUsage]_vars

\* Queued mode: jobs of both kinds that the broker accepts, executed
\* concurrently by the workers, while callers ask for their status
NextResults ==
  \/ addContentGenerationJob(MaxResultJobs, {"ok"})
  \/ addNicheAnalysisJob(MaxResultJobs, {"ok"})
  \/ \E j \in DOMAIN jobs : WorkerTakes(j)
  \/ \E j \in DOMAIN jobs : WorkerSettles(j)
  \/ \E j \in DOMAIN jobs : BackoffElapsed(j)
  \/ GetJobResult

SpecResults == InitWorkers /\ [][NextResults]_vars

\* The pure functions of the pipelines, applied to arguments of every kind
InitPure ==
  /\ Init
  /\ ~REDIS_AVAILABLE

NextValidateContent == ValidateContent

SpecValidateContent == InitPure /\ [][NextValidateContent]_vars

NextValidateAnalysis == ValidateAnalysis

SpecValidateAnalysis == InitPure /\ [][NextValidateAnalysis]_vars

NextParse == ParseResponses

SpecParse == InitPure /\ [][NextParse]_vars

NextGenerate == GenerateContents

SpecGenerate == InitPure /\ [][NextGenerate]_vars

NextAnalyze == AnalyzeNiches

SpecAnalyze == InitPure /\ [][NextAnalyze]_vars

\* The pipelines and the validators, for the objects they are given
NextFrame ==
  \/ GenerateContents
  \/ AnalyzeNiches
  \/ ValidateContent
  \/ ValidateAnalysis

SpecFrame == InitPure /\ [][NextFrame]_vars

NextExtract == ExtractStructuredContents

SpecExtract == InitPure /\ [][NextExtract]_vars

\* The router with a broker whose enqueue call can fail before or after
\* the broker has taken the job
NextEnqueue ==
  \/ addContentGenerationJob(MaxEnqueueCalls, EnqueueOutcomes)
  \/ addNicheAnalysisJob(MaxEnqueueCalls, EnqueueOutcomes)
  \/ \E c \in DOMAIN calls : DirectSettles(c)
  \/ \E j \in DOMAIN jobs : WorkerTakes(j)
  \/ \E j \in DOMAIN jobs : WorkerSettles(j)
  \/ \E j \in DOMAIN jobs : BackoffElapsed(j)

SpecEnqueue == InitWorkers /\ [][NextEnqueue]_vars

\* Calls of verifyOtp for a phone number to which a code was sent; the
\* calls of different requests run concurrently
NextOtp ==
  \/ VerifyOtpCalled
  \/ \E c \in DOMAIN verifyCalls : OtpUpdated(c)
  \/ \E c \in DOMAIN verifyCalls : UsersSelected(c)
  \/ \E c \in DOMAIN verifyCalls : UserSaved(c)
  \/ OtpExpires

SpecOtp == InitPure /\ [][NextOtp]_vars

\* ------------------------------------------------------------------------
\* Properties of the job execution router
\* ------------------------------------------------------------------------
\* The messages with which a pipeline run of that payload can fail
PipelineErrors(kind, data) ==
  {Pipeline(kind, data, env).error : env \in {e \in Envs : ~Pipeline(kind, data, e).ok}}

\* C1: when no broker is configured, nothing is enqueued, and a submit call
\* that has returned has run the pipeline once in the caller's context and
\* returned a jobId with the prefix 'direct-' together with the result; for
\* content generation result.platform is the requested platform.
C1_DirectWithoutBroker ==
  (~REDIS_AVAILABLE \/ ~bullmq) =>
    /\ jobs = <<>>
    /\ \A c \in DOMAIN calls :
         /\ calls[c].ran = <<calls[c].data>>
         /\ calls[c].pc = "returned" =>
              /\ StartsWith(calls[c].jobId, DirectPrefix)
              /\ calls[c].result # None
              /\ calls[c].kind = CONTENT =>
                   calls[c].result.platform = calls[c].data.platform

C1_Witness ==
  \E c \in DOMAIN calls :
    /\ ~REDIS_AVAILABLE
    /\ calls[c].pc = "returned"
    /\ calls[c].kind = CONTENT
    /\ calls[c].result.platform = "linkedin"

\* C2: a submit call whose enqueueing succeeded returns the broker's jobId and
\* no result, has not run the pipeline in the caller's context, and its job
\* is held by the broker for a worker; a returned call carries a result if
\* and only if the pipeline was run directly.
C2_QueuedReturnsNoResult ==
  \A c \in DOMAIN calls :
    /\ calls[c].enq = "ok" =>
         /\ calls[c].pc = "returned"
         /\ calls[c].result = None
         /\ calls[c].ran = <<>>
         /\ \E j \in DOMAIN jobs :
              /\ jobs[j].call = c
              /\ jobs[j].queue = calls[c].kind
              /\ jobs[j].id = calls[c].jobId
              /\ jobs[j].data = calls[c].data
    /\ calls[c].pc = "returned" => (calls[c].result # None <=> calls[c].ran # <<>>)

C2_Witness ==
  \E c \in DOMAIN calls, j \in DOMAIN jobs :
    /\ calls[c].enq = "ok"
    /\ calls[c].pc = "returned"
    /\ jobs[j].call = c
    /\ jobs[j].state = "active"

\* C3: a submit call whose queue creation or enqueueing threw runs the
\* pipeline directly with the same payload; when it returns it returns a
\* jobId with the prefix 'direct-' and the result, and when it throws, the
\* error is the pipeline's, not the broker's.
C3_FallbackOnEnqueueError ==
  \A c \in DOMAIN calls :
    calls[c].enq \in {"throws", "throws_accepted"} =>
      /\ calls[c].ran = <<calls[c].data>>
      /\ calls[c].pc \in {"direct", "returned", "thrown"}
      /\ calls[c].pc = "returned" =>
           /\ StartsWith(calls[c].jobId, DirectPrefix)
           /\ calls[c].result # None
      /\ calls[c].pc = "thrown" =>
           calls[c].error \in PipelineErrors(calls[c].kind, calls[c].data)

C3_Witness ==
  \E c \in DOMAIN calls :
    /\ REDIS_AVAILABLE /\ bullmq
    /\ calls[c].enq = "throws"
    /\ calls[c].pc = "returned"
    /\ calls[c].kind = NICHE

\* C4: the processor is called with a content-generation job at most 3 times
\* and with a niche-analysis job at most 2 times; a job is failed only when
\* that many attempts have failed; and a failed attempt puts the job back for
\* another attempt (delayed, then waiting) while attempts remain, and makes
\* it failed otherwise.
C4_AttemptLimit(j) == IF jobs[j].queue = CONTENT THEN 3 ELSE 2

C4_RetryPolicy ==
  /\ [](\A j \in DOMAIN jobs :
          /\ jobs[j].runs <= C4_AttemptLimit(j)
          /\ jobs[j].state = "failed" =>
               /\ jobs[j].runs = C4_AttemptLimit(j)
               /\ jobs[j].attemptsMade = C4_AttemptLimit(j))
  /\ [][\A j \in DOMAIN jobs :
          (jobs[j].state = "active" /\ jobs'[j].state \notin {"active", "completed"}) =>
            IF jobs[j].runs < C4_AttemptLimit(j)
              THEN jobs'[j].state = "delayed"
              ELSE jobs'[j].state = "failed"]_vars

C4_Witness ==
  \E i, j \in DOMAIN jobs :
    /\ jobs[i].queue = CONTENT /\ jobs[i].state = "failed" /\ jobs[i].runs = 3
    /\ jobs[j].queue = NICHE /\ jobs[j].state = "active" /\ jobs[j].runs = 2

\* C5: a submit call starts the pipeline in the caller's context at most
\* once; when that run fails the call throws the pipeline's error, without
\* another run and without a jobId or a result; when it succeeds the call
\* returns.
C5_DirectRunsOnce ==
  /\ [](\A c \in DOMAIN calls :
          /\ Len(calls[c].ran) <= 1
          /\ calls[c].pc = "direct" => calls[c].ran = <<calls[c].data>>
          /\ calls[c].pc = "thrown" =>
               /\ calls[c].ran = <<calls[c].data>>
               /\ calls[c].jobId = <<>>
               /\ calls[c].result = None
               /\ calls[c].error \in PipelineErrors(calls[c].kind, calls[c].data))
  /\ [][\A c \in DOMAIN calls :
          (calls[c].pc = "direct" /\ calls'[c] # calls[c]) =>
             calls'[c].pc \in {"returned", "thrown"}]_vars

C5_Witness ==
  \E c \in DOMAIN calls :
    /\ calls[c].pc = "thrown"
    /\ calls[c].enq = "none"
    /\ calls[c].kind = CONTENT

\* C6: a job of the broker starts pending (waiting), becomes active only from
\* waiting, becomes completed or failed only from active, and once completed
\* or failed it never changes again (a failed attempt with attempts left
\* takes the job from active back to pending: delayed, then waiting); a
\* submit call that has returned or thrown never changes again.
C6_Pending(state) == state \in {"waiting", "delayed"}

C6_StateMachine ==
  [][/\ \A j \in DOMAIN jobs' :
          IF j \in DOMAIN jobs
            THEN /\ jobs[j].state \in {"completed", "failed"} => jobs'[j] = jobs[j]
                 /\ (jobs'[j].state = "active" /\ jobs[j].state # "active") =>
                      jobs[j].state = "waiting"
                 /\ (jobs'[j].state \in {"completed", "failed"}
                       /\ jobs[j].state \notin {"completed", "failed"}) =>
                      jobs[j].state = "active"
                 /\ (C6_Pending(jobs'[j].state) /\ ~C6_Pending(jobs[j].state)) =>
                      jobs[j].state = "active"
            ELSE jobs'[j].state = "waiting"
     /\ \A c \in DOMAIN calls :
          calls[c].pc \in {"returned", "thrown"} => calls'[c] = calls[c]]_vars

C6_Witness ==
  \E i, j \in DOMAIN jobs :
    /\ jobs[i].state = "completed" /\ jobs[i].attemptsMade = 2
    /\ jobs[j].state = "failed"

\* C7: for every jobId with the prefix 'direct-' and every queue name,
\* getJobStatus replies completed with the note that no queue was involved,
\* without a query to the broker, whether or not a broker is configured.
C7_DirectIdsCompleted ==
  (lastStatus # None /\ StartsWith(lastStatus.jobId, DirectPrefix)) =>
    /\ lastStatus.reply.status = "completed"
    /\ lastStatus.reply.result = DirectNote
    /\ ~lastStatus.reply.queried

C7_Witness ==
  /\ lastStatus # None
  /\ ~(REDIS_AVAILABLE /\ bullmq)
  /\ lastStatus.queueName = NICHE
  /\ lastStatus.jobId = DirectPrefix \o <<"x">>
  /\ lastStatus.reply.status = "completed"

\* C8: for a jobId without the local tag, when no broker is configured, the
\* broker query throws or the queue has no job with that id, getJobStatus
\* replies unknown with an error message; it replies failed only when the
\* broker holds the job and reports it failed.
C8_UnknownNotFailed ==
  (lastStatus # None /\ ~StartsWith(lastStatus.jobId, DirectPrefix)) =>
    /\ ( \/ ~REDIS_AVAILABLE \/ ~bullmq
         \/ lastStatus.outcome # "ok"
         \/ FindJob(lastStatus.queueName, lastStatus.jobId) = {} ) =>
           /\ lastStatus.reply.status = "unknown"
           /\ lastStatus.reply.error # ""
    /\ lastStatus.reply.status = "failed" =>
         /\ lastStatus.outcome = "ok"
         /\ \E j \in FindJob(lastStatus.queueName, lastStatus.jobId) :
              jobs[j].state = "failed"

C8_Witness ==
  /\ lastStatus # None
  /\ REDIS_AVAILABLE /\ bullmq
  /\ lastStatus.outcome = "throws_error"
  /\ \E j \in FindJob(lastStatus.queueName, lastStatus.jobId) : jobs[j].state = "failed"
  /\ lastStatus.reply.status = "unknown"

\* C9: at every instant at most 5 content-generation jobs and at most 2
\* niche-analysis jobs are being executed by the workers of this process.
C9_WorkerConcurrency ==
  /\ Cardinality(Active(CONTENT)) <= 5
  /\ Cardinality(Active(NICHE)) <= 2

\* C11: content generation for a platform without an entry in the table
\* fails before the model is invoked, and the failure is not retried: a
\* queued job with such a platform is never completed, is given to the
\* processor at most once, is never delayed for another attempt, and is
\* failed after one attempt; a direct run with it throws after one run.
C11_ConfigErrorNotRetried ==
  /\ \A j \in DOMAIN jobs :
       jobs[j].data \in UnknownPlatformRequests =>
         /\ generateContentInvokes(jobs[j].data) = <<>>
         /\ \A env \in Envs : ~Pipeline(jobs[j].queue, jobs[j].data, env).ok
         /\ jobs[j].state \notin {"completed", "delayed"}
         /\ jobs[j].runs <= 1
         /\ jobs[j].state = "failed" => jobs[j].attemptsMade = 1
  /\ \A c \in DOMAIN calls :
       calls[c].data \in UnknownPlatformRequests =>
         /\ Len(calls[c].ran) <= 1
         /\ calls[c].pc # "returned" \/ calls[c].enq = "ok"

\* C12: a run is followed by exactly one usage row when it succeeded and by
\* none when it failed, queued or direct: no call has two rows, a call whose
\* run failed has none, a row belongs to a run that succeeded, and once the
\* caller has got its answer and the job of the call (if any) is completed,
\* so that nothing is left to happen for the call, the call has its row.
C12_UsageWrites(c) ==
  Cardinality({i \in DOMAIN usageRecords : usageRecords[i].call = c})

C12_Succeeded(c) ==
  \/ calls[c].result # None
  \/ \E j \in DOMAIN jobs : jobs[j].call = c /\ jobs[j].state = "completed"

C12_Failed(c) ==
  \/ calls[c].pc = "thrown"
  \/ \E j \in DOMAIN jobs : jobs[j].call = c /\ jobs[j].state = "failed"

C12_OneUsageWrite ==
  \A c \in DOMAIN calls :
    /\ C12_UsageWrites(c) <= 1
    /\ C12_Failed(c) => C12_UsageWrites(c) = 0
    /\ C12_UsageWrites(c) = 1 => C12_Succeeded(c)
    /\ (calls[c].pc \in {"completed", "queued"} /\ C12_Succeeded(c)) =>
         C12_UsageWrites(c) = 1

\* C13: in queued mode, whatever jobs run concurrently and in whatever order
\* they finish, the jobs of a queue have distinct ids, the return value of
\* a completed job is a result of the pipeline of its queue run with its own
\* payload, and a status reply "completed" for (queue, jobId) carries the
\* return value of the job of that queue with that id.
C13_OwnResults(j) ==
  {Pipeline(jobs[j].queue, jobs[j].data, env).value :
     env \in {e \in Envs : Pipeline(jobs[j].queue, jobs[j].data, e).ok}}

C13_ResultOfOwnPayload ==
  /\ \A i, j \in DOMAIN jobs :
       (i # j /\ jobs[i].queue = jobs[j].queue) => jobs[i].id # jobs[j].id
  /\ \A j \in DOMAIN jobs :
       jobs[j].state = "completed" =>
         /\ jobs[j].returnvalue \in C13_OwnResults(j)
         /\ jobs[j].queue = CONTENT =>
              jobs[j].returnvalue.platform = jobs[j].data.platform
  /\ (lastStatus # None /\ lastStatus.reply.queried
        /\ lastStatus.reply.status = "completed") =>
       \E j \in DOMAIN jobs :
         /\ jobs[j].queue = lastStatus.queueName
         /\ jobs[j].id = lastStatus.jobId
         /\ jobs[j].state = "completed"
         /\ lastStatus.reply.result = jobs[j].returnvalue
         /\ lastStatus.reply.result \in C13_OwnResults(j)

C13_Witness ==
  /\ lastStatus # None
  /\ lastStatus.reply.queried
  /\ lastStatus.reply.status = "completed"
  /\ lastStatus.queueName = CONTENT
  /\ \E i, j \in DOMAIN jobs :
       /\ i < j
       /\ jobs[i].queue = CONTENT /\ jobs[j].queue = CONTENT
       /\ jobs[i].data # jobs[j].data
       /\ jobs[i].state = "active" /\ jobs[i].runs = 1
       /\ jobs[j].state = "completed"
       /\ jobs[j].id = lastStatus.jobId
       /\ lastStatus.reply.result.platform = jobs[j].data.platform

\* C14: a job that a worker has started is never cancelled: it stays held by
\* the broker and leaves active only when its attempt has settled; under
\* fair scheduling every job eventually is completed or failed, so that
\* none stays waiting, delayed or active forever, and every pipeline run
\* started in a caller eventually returns or throws.
C14_Terminal(j) == j \in DOMAIN jobs /\ jobs[j].state \in {"completed", "failed"}

C14_Settled(c) == c \in DOMAIN calls /\ calls[c].pc \in {"returned", "thrown"}

C14_JobsTerminate ==
  /\ [][\A j \in DOMAIN jobs :
          /\ j \in DOMAIN jobs'
          /\ jobs'[j].runs >= jobs[j].runs
          /\ (jobs[j].state = "active" /\ jobs'[j].state # "active") =>
               /\ jobs'[j].attemptsMade = jobs[j].attemptsMade + 1
               /\ jobs'[j].state \in {"completed", "failed", "delayed"}]_vars
  /\ \A j \in 1..MaxCalls : [](j \in DOMAIN jobs => <>C14_Terminal(j))
  /\ \A c \in 1..MaxCalls : [](c \in DOMAIN calls => <>C14_Settled(c))

C14_Witness ==
  \E i, j \in DOMAIN jobs :
    /\ i # j
    /\ jobs[i].state = "completed" /\ jobs[i].runs = 3
    /\ jobs[j].state = "failed" /\ jobs[j].queue = NICHE

\* ------------------------------------------------------------------------
\* Properties of the page scraper
\* ------------------------------------------------------------------------
\* C10: when a scrapeWebsite call has returned or thrown, the browser it
\* launched is closed; when every call has finished no browser is open; and
\* a call for an unreachable host ends in an error.
C10_BrowserReleased ==
  /\ \A s \in Scrapes :
       scrapes[s].pc \in {"returned", "thrown"} => ~scrapes[s].open
  /\ (\A s \in Scrapes : scrapes[s].pc \in {"returned", "thrown"}) => browsers = 0
  /\ \A s \in Scrapes :
       (scrapes[s].url \in Unreachable /\ scrapes[s].pc \notin {"launch", "navigate", "catch"})
         => scrapes[s].pc = "thrown"

\* ------------------------------------------------------------------------
\* Properties of the validators
\* ------------------------------------------------------------------------
C15_Validated == probe # None /\ probe.fn = "validateContent"

C15_WithinLimits(content) ==
  /\ content.platform \in Platforms
  /\ content.characterCount <= PLATFORM_SPECS[content.platform].maxLength
  /\ content.hashtags # Undefined =>
       Len(ValueOf(content.hashtags)) <= PLATFORM_SPECS[content.platform].hashtagLimit

C15_Blank(content) ==
  \/ content.body = Undefined
  \/ \A i \in DOMAIN ValueOf(content.body) : ValueOf(content.body)[i] \in Whitespace

\* C15 as stated: for every platform of the table and every content whose
\* characterCount is at most the maximum and whose number of hashtags is at
\* most the limit, validateContent returns isValid true and no issues.
C15_ValidWithinLimits ==
  (C15_Validated /\ C15_WithinLimits(probe.arg)) =>
    /\ probe.value.isValid
    /\ probe.value.issues = <<>>

\* C15, amended: for every platform of the table and every content whose
\* characterCount is at most the maximum, whose number of hashtags is at
\* most the limit and whose body has a character that is not whitespace,
\* validateContent returns isValid true and no issues.
C15_ValidWithinLimitsAndBody ==
  (C15_Validated /\ C15_WithinLimits(probe.arg) /\ ~C15_Blank(probe.arg)) =>
    /\ probe.value.isValid
    /\ probe.value.issues = <<>>

C15_Witness ==
  /\ C15_Validated
  /\ probe.arg.platform = "twitter"
  /\ probe.arg.characterCount = 280
  /\ probe.arg.hashtags # Undefined /\ Len(ValueOf(probe.arg.hashtags)) = 3
  /\ probe.arg.body = Defined(<<" ", "a">>)
  /\ probe.value.isValid

\* C16: for a platform of the table validateContent appends one issue per
\* violated rule and no other: an issue containing 'exceeds' exactly when
\* characterCount is above the maximum (300 characters on twitter), one
\* mentioning hashtags exactly when there are more hashtags than the limit,
\* one mentioning 'empty' exactly when the body is missing, empty or
\* whitespace only; and isValid is true exactly when no issue was appended.
C16_Over(content) ==
  content.characterCount > PLATFORM_SPECS[content.platform].maxLength

C16_TooMany(content) ==
  /\ content.hashtags # Undefined
  /\ Len(ValueOf(content.hashtags)) > PLATFORM_SPECS[content.platform].hashtagLimit

C16_Count(violated) == IF violated THEN 1 ELSE 0

C16_Mentioned(issues, word) == \E i \in DOMAIN issues : Includes(issues[i], word)

C16_OneIssuePerRule ==
  (C15_Validated /\ probe.arg.platform \in Platforms) =>
    /\ probe.value.isValid <=> probe.value.issues = <<>>
    /\ Len(probe.value.issues) =
         C16_Count(C16_Over(probe.arg)) + C16_Count(C16_TooMany(probe.arg))
           + C16_Count(C15_Blank(probe.arg))
    /\ C16_Over(probe.arg) <=> C16_Mentioned(probe.value.issues, "exceeds")
    /\ C16_TooMany(probe.arg) <=> C16_Mentioned(probe.value.issues, "hashtags")
    /\ C15_Blank(probe.arg) <=> C16_Mentioned(probe.value.issues, "empty")

C16_Witness ==
  /\ C15_Validated
  /\ probe.arg.platform = "twitter"
  /\ probe.arg.characterCount = 300
  /\ probe.arg.body = Defined(<<" ", " ">>)
  /\ ~probe.value.isValid
  /\ Len(probe.value.issues) = 2
  /\ Includes(probe.value.issues[1], "exceeds")
  /\ Includes(probe.value.issues[2], "empty")

\* C17: for every platform key that is not one of the five entries of the
\* table, validateContent returns isValid false with an issue that names
\* the unknown platform.
C17_UnknownPlatformInvalid ==
  (C15_Validated /\ probe.arg.platform \notin Platforms) =>
    /\ ~probe.value.isValid
    /\ \E i \in DOMAIN probe.value.issues :
         /\ Includes(probe.value.issues[i], "Unknown")
         /\ probe.value.issues[i].platform = probe.arg.platform

C18_Validated == probe # None /\ probe.fn = "validateAnalysis"

C18_StringAtLeast(str, n) == str # Undefined /\ Len(ValueOf(str)) >= n
C18_ListAtLeast(list, n) == list # Undefined /\ Len(ValueOf(list)) >= n

C18_BrandVoice(a, f) == IF a.brandVoice = Undefined THEN Undefined ELSE a.brandVoice[1][f]
C18_Audience(a, f) == IF a.targetAudience = Undefined THEN Undefined ELSE a.targetAudience[1][f]
C18_Strategy(a, f) == IF a.contentStrategy = Undefined THEN Undefined ELSE a.contentStrategy[1][f]
C18_Autopilot(a, f) == IF a.autopilotConfig = Undefined THEN Undefined ELSE a.autopilotConfig[1][f]

\* The six checks, in the order of the code
C18_Checks(a) ==
  << C18_StringAtLeast(a.industry, 3),
     C18_StringAtLeast(C18_BrandVoice(a, "tone"), 1),
     C18_ListAtLeast(C18_BrandVoice(a, "keywords"), 3),
     C18_StringAtLeast(C18_Audience(a, "demographics"), 1),
     C18_ListAtLeast(C18_Strategy(a, "topics"), 3),
     C18_ListAtLeast(C18_Strategy(a, "platforms"), 1) >>

C18_Failing(a) == {k \in DOMAIN C18_Checks(a) : ~C18_Checks(a)[k]}

C18_SixChecks ==
  /\ probe.value.isValid <=> C18_Failing(probe.arg) = {}
  /\ Len(probe.value.issues) = Cardinality(C18_Failing(probe.arg))
  /\ 1 \in C18_Failing(probe.arg) <=> C16_Mentioned(probe.value.issues, "Industry")
  /\ 3 \in C18_Failing(probe.arg) <=> C16_Mentioned(probe.value.issues, "keywords")

\* Every required list has at least 3 entries and every required string is
\* not empty
C18_ListsAndStrings(a) ==
  /\ C18_ListAtLeast(C18_BrandVoice(a, "keywords"), 3)
  /\ C18_ListAtLeast(C18_Strategy(a, "topics"), 3)
  /\ C18_ListAtLeast(C18_Strategy(a, "platforms"), 3)
  /\ C18_StringAtLeast(a.industry, 1)
  /\ C18_StringAtLeast(C18_BrandVoice(a, "tone"), 1)
  /\ C18_StringAtLeast(C18_Audience(a, "demographics"), 1)

\* C18 as stated: validateAnalysis returns isValid true exactly when the six
\* checks pass (industry of 3 characters, tone, 3 brand keywords,
\* demographics, 3 topics, 1 platform), with one issue per failing check (one
\* mentioning 'Industry', one mentioning 'keywords'); and a result whose
\* required lists have 3 entries and whose required strings are not empty
\* is valid, without issues.
C18_ValidIffSixChecks ==
  C18_Validated =>
    /\ C18_SixChecks
    /\ C18_ListsAndStrings(probe.arg) =>
         (probe.value.isValid /\ probe.value.issues = <<>>)

\* C18, amended: validateAnalysis returns isValid true exactly when the six
\* checks pass, with one issue per failing check (one mentioning 'Industry',
\* one mentioning 'keywords'); and a result whose required lists have 3
\* entries, whose industry has 3 characters and whose other required
\* strings are not empty is valid, without issues.
C18_ValidIffSixChecksAmended ==
  C18_Validated =>
    /\ C18_SixChecks
    /\ (C18_ListsAndStrings(probe.arg) /\ C18_StringAtLeast(probe.arg.industry, 3)) =>
         (probe.value.isValid /\ probe.value.issues = <<>>)

C18_Witness ==
  /\ C18_Validated
  /\ probe.arg.industry = Defined(<<"a", "a">>)
  /\ C18_BrandVoice(probe.arg, "keywords") = Defined(ListOf(2))
  /\ ~probe.value.isValid
  /\ Len(probe.value.issues) = 2
  /\ Includes(probe.value.issues[1], "Industry")
  /\ Includes(probe.value.issues[2], "keywords")

C19_Lists(a) ==
  { C18_BrandVoice(a, "keywords"), C18_Audience(a, "painPoints"),
    C18_Audience(a, "interests"), a.competitors, a.keywords,
    C18_Strategy(a, "topics"), C18_Strategy(a, "bestTimes"),
    C18_Strategy(a, "platforms"), C18_Autopilot(a, "contentTypes") }

C19_StringFields(a) ==
  { a.industry, C18_BrandVoice(a, "tone"), C18_BrandVoice(a, "writingStyle"),
    C18_Audience(a, "demographics"), C18_Autopilot(a, "postingSchedule") }

\* C19 as stated: whenever validateAnalysis returns isValid true, every list
\* of the result has at least 3 entries and every string is not empty; and
\* validateAnalysis does not change the result.
C19_ValidImpliesComplete ==
  C18_Validated =>
    /\ probe.after = probe.arg
    /\ probe.value.isValid =>
         /\ \A list \in C19_Lists(probe.arg) : C18_ListAtLeast(list, 3)
         /\ \A str \in C19_StringFields(probe.arg) : C18_StringAtLeast(str, 1)

\* C19, amended: whenever validateAnalysis returns isValid true, the
\* industry has at least 3 characters, the tone and the demographics are
\* not empty, there are at least 3 brand keywords, at least 3 topics and at
\* least 1 platform; and validateAnalysis does not change the result.
C19_ValidImpliesChecked ==
  C18_Validated =>
    /\ probe.after = probe.arg
    /\ probe.value.isValid =>
         /\ C18_StringAtLeast(probe.arg.industry, 3)
         /\ C18_StringAtLeast(C18_BrandVoice(probe.arg, "tone"), 1)
         /\ C18_ListAtLeast(C18_BrandVoice(probe.arg, "keywords"), 3)
         /\ C18_StringAtLeast(C18_Audience(probe.arg, "demographics"), 1)
         /\ C18_ListAtLeast(C18_Strategy(probe.arg, "topics"), 3)
         /\ C18_ListAtLeast(C18_Strategy(probe.arg, "platforms"), 1)

C19_Witness ==
  /\ C18_Validated
  /\ probe.value.isValid
  /\ C18_Strategy(probe.arg, "platforms") = Defined(ListOf(1))
  /\ C18_Audience(probe.arg, "painPoints") = Defined(ListOf(0))
  /\ C18_BrandVoice(probe.arg, "writingStyle") = Defined(<<>>)
  /\ probe.after = probe.arg

\* ------------------------------------------------------------------------
\* Properties of the model response parser
\* ------------------------------------------------------------------------
C20_Parsed == probe # None /\ probe.fn = "ParseResponse"

C20_Braces(text) == {i \in DOMAIN text : text[i] \in {"{", "}"}}

\* C20 as stated: for every JSON object, the parser yields the same object
\* from the pure JSON text and from that text wrapped in prose.
C20_RoundTrip ==
  C20_Parsed =>
    /\ probe.value.pure.ok
    /\ probe.value.wrapped = probe.value.pure

\* C20, amended: for every JSON object, the parser yields the same object
\* from the pure JSON text and from that text wrapped in prose that
\* contains no brace.
C20_RoundTripBraceFreeProse ==
  (C20_Parsed /\ C20_Braces(probe.arg.before) = {} /\ C20_Braces(probe.arg.after) = {}) =>
    /\ probe.value.pure.ok
    /\ probe.value.wrapped = probe.value.pure

C20_Witness ==
  /\ C20_Parsed
  /\ probe.arg.before = <<"x">>
  /\ probe.arg.after = <<"x", "x">>
  /\ probe.arg.json = <<"{", "{", "}", "}">>
  /\ probe.value.wrapped.ok
  /\ probe.value.wrapped.value = probe.arg.json
\* ------------------------------------------------------------------------
\* Properties of the content runs
\* ------------------------------------------------------------------------
C21_Run == probe # None /\ probe.fn = "generateContentWithImage"

\* The direct parse or the parse of the brace span yields a JSON object
C21_ObjectRecovered(text) ==
  \/ JSONParse(text).ok /\ Head(JSONParse(text).value) = "{"
  \/ /\ ~JSONParse(text).ok
     /\ BraceSpan(text) # Undefined
     /\ JSONParse(ValueOf(BraceSpan(text))).ok
     /\ Head(JSONParse(ValueOf(BraceSpan(text))).value) = "{"

\* C21: generate fails, and returns no content, when the response of the
\* model is empty or when neither the direct parse nor the parse of the
\* brace span recovers a JSON object: content is returned only from a
\* recovered JSON object
C21_ContentOnlyFromObject ==
  C21_Run /\ probe.text.ok =>
    /\ ~probe.arg.response.rejects
    /\ probe.arg.response.content # <<>>
    /\ C21_ObjectRecovered(probe.arg.response.content)

C22_Run == probe # None /\ probe.fn = "generateContentWithImage"

C22_ImageDown == probe.arg.image \in {"unconfigured", "fails"}

\* C22: the image never fails a content run: once the text content has
\* been produced the run returns it, with imageUrl null when the request
\* asks for an image and the image collaborator fails or is unconfigured,
\* and the image is requested only after the text content was produced
C22_ImageNeverFailsRun ==
  C22_Run =>
    /\ probe.value.ok = probe.text.ok
    /\ probe.text.ok /\ probe.arg.request.includeImage /\ C22_ImageDown =>
         /\ probe.value.value.imageUrl = "null"
         /\ \A f \in DOMAIN probe.text.value :
              probe.value.value[f] = probe.text.value[f]
    /\ \A i \in DOMAIN probe.invokes :
         probe.invokes[i] = "openai.images.generate" =>
           /\ probe.text.ok
           /\ i > 1
           /\ probe.invokes[i - 1] = "invokeLLM"

C22_Witness ==
  /\ C22_Run
  /\ probe.text.ok
  /\ probe.arg.request.includeImage
  /\ probe.arg.image = "fails"
  /\ probe.value.ok
  /\ probe.value.value.imageUrl = "null"
  /\ probe.invokes = <<"invokeLLM", "openai.images.generate">>

C26_Run == probe # None /\ probe.fn = "generateContentWithImage"

\* The characters of the tags and of the spaces between them
RECURSIVE C26_TagCharacters(_)
C26_TagCharacters(tags) ==
  IF tags = <<>> THEN 0 ELSE Len(Head(tags)) + C26_TagCharacters(Tail(tags))

C26_JoinedLength(tags) ==
  IF tags = <<>> THEN 0 ELSE C26_TagCharacters(tags) + Len(tags) - 1

C26_OverLimit ==
  /\ probe.text.ok
  /\ probe.text.value.platform \in Platforms
  /\ probe.text.value.characterCount
       > PLATFORM_SPECS[probe.text.value.platform].maxLength

\* C26: the characterCount of a content generate returns is the length of
\* its body plus the length of its hashtags joined with spaces; generate
\* fails for no other reason than a missing platform entry, a rejected,
\* empty or unparseable response, so never for the count, and
\* validateContent applied to a returned content over the limit of its
\* platform reports the length violation
C26_CountedNotEnforced ==
  C26_Run =>
    /\ probe.text.ok =>
         probe.text.value.characterCount
           = Len(probe.text.value.body) + C26_JoinedLength(probe.text.value.hashtags)
    /\ ~probe.text.ok =>
         \/ probe.arg.request.platform \notin Platforms \cup ObjectPrototypeKeys
         \/ probe.arg.response.rejects
         \/ probe.arg.response.content = <<>>
         \/ ~ParseResponse(probe.arg.response.content).ok
    /\ C26_OverLimit =>
         /\ ~probe.validation.isValid
         /\ \E i \in DOMAIN probe.validation.issues :
              /\ Includes(probe.validation.issues[i], "exceeds")
              /\ probe.validation.issues[i].nums[1] = probe.text.value.characterCount

C26_Witness ==
  /\ C26_Run
  /\ C26_OverLimit
  /\ probe.text.value.hashtags # <<>>
  /\ Len(probe.text.value.body) <= PLATFORM_SPECS[probe.text.value.platform].maxLength
  /\ ~probe.validation.isValid

\* ------------------------------------------------------------------------
\* Properties of the analysis runs
\* ------------------------------------------------------------------------
C23_Run == probe # None /\ probe.fn = "analyzeNiche"

\* What a caller can read off the error: the message of the scraper
C23_IsScrapeFailure(error) ==
  /\ Len(error) >= 2
  /\ error[2] = "Failed to scrape website"

C23_Parseable(text) ==
  \/ JSONParse(text).ok
  \/ BraceSpan(text) # Undefined /\ JSONParse(ValueOf(BraceSpan(text))).ok

C24_Input ==
  IF probe.fn \in {"generateContentWithImage", "analyzeNiche"}
    THEN probe.arg.request
    ELSE probe.arg

C24_FrameCalls ==
  {"generateContentWithImage", "analyzeNiche", "validateContent", "validateAnalysis"}

C25_Run == probe # None /\ probe.fn = "extractStructuredContent"

\* The texts of all elements, in document order
C25_Texts ==
  LET els == Elements(probe.arg) IN [k \in DOMAIN els |-> Trim(TextOf(els[k]))]

\* list[i..] is found in texts[k..], in this order
RECURSIVE C25_FoundInOrder(_, _, _, _)
C25_FoundInOrder(list, i, texts, k) ==
  IF i > Len(list) THEN TRUE
  ELSE IF k > Len(texts) THEN FALSE
  ELSE IF list[i] = texts[k] THEN C25_FoundInOrder(list, i + 1, texts, k + 1)
  ELSE C25_FoundInOrder(list, i, texts, k + 1)

C25_InDocumentOrder(list) == C25_FoundInOrder(list, 1, C25_Texts, 1)

C25_IsLongParagraph(el) == el.tag = "p" /\ Len(Trim(TextOf(el))) > 50

C25_LongParagraphs == SelectSeq(Elements(probe.arg), C25_IsLongParagraph)

\* C25: for every document, one with none of the sought elements
\* included, the extractor returns at most 20 headings, 30 paragraphs, 10
\* services and 5 testimonials, each list in document order, and the
\* paragraphs are exactly the first 30 texts of <p> elements whose trimmed
\* length is greater than 50
C25_BoundedInOrder ==
  C25_Run =>
    /\ DOMAIN probe.value = {"headings", "paragraphs", "services", "testimonials"}
    /\ Len(probe.value.headings) <= 20
    /\ Len(probe.value.paragraphs) <= 30
    /\ Len(probe.value.services) <= 10
    /\ Len(probe.value.testimonials) <= 5
    /\ \A list \in DOMAIN probe.value : C25_InDocumentOrder(probe.value[list])
    /\ LET long == C25_LongParagraphs IN
         /\ Len(probe.value.paragraphs) = (IF Len(long) < 30 THEN Len(long) ELSE 30)
         /\ \A i \in DOMAIN probe.value.paragraphs :
              probe.value.paragraphs[i] = Trim(TextOf(long[i]))

\* '<p>short</p>' and a paragraph of 60 characters, 31 times over
C25_Witness ==
  /\ C25_Run
  /\ Len(probe.arg) = 62
  /\ probe.arg[1].tag = "p" /\ Len(probe.arg[1].text) = 5
  /\ probe.arg[2].tag = "p" /\ Len(probe.arg[2].text) = 60
  /\ Len(probe.value.paragraphs) = 30
  /\ probe.value.paragraphs[1] = probe.arg[2].text
  /\ probe.value.headings = <<>>

\* ------------------------------------------------------------------------
\* Status values, execution paths and job ids of the router
\* ------------------------------------------------------------------------
C27_StatusValues == {"pending", "active", "completed", "failed", "unknown"}

\* C27: for every kind and jobId, in every state of the broker, the status
\* that status(kind, jobId) returns is one of pending, active, completed,
\* failed and unknown, also for a job that waits for a retry after a failed
\* attempt
C27_StatusOfFive ==
  lastStatus # None => lastStatus.reply.status \in C27_StatusValues

\* The job of the reply waits for its retry
C27_RetryReported ==
  /\ lastStatus # None
  /\ lastStatus.reply.status = "delayed"

\* The payload of call c was given to the pipeline by the fallback
C28_RanDirectly(c) == calls[c].ran # <<>>

\* The payload of call c was given to the pipeline by a worker
C28_RanByWorker(c) ==
  \E j \in DOMAIN jobs : jobs[j].call = c /\ jobs[j].runs >= 1

\* C28: a submitted payload is executed through one path only: no
\* submission is enqueued and run by a worker and also executed by the
\* direct fallback, also when the enqueue call throws after the broker
\* has accepted the job
C28_OnePath ==
  \A c \in DOMAIN calls : ~(C28_RanDirectly(c) /\ C28_RanByWorker(c))

C29_Returned == {c \in DOMAIN calls : calls[c].pc = "returned"}

\* C29: any two distinct submissions receive distinct jobIds, two direct
\* executions that settle at the same reading of the clock included; here
\* for two submissions of the same kind, whose jobIds are given to the
\* same status queries
C29_DistinctJobIds ==
  \A c, d \in C29_Returned :
    c # d /\ calls[c].kind = calls[d].kind => calls[c].jobId # calls[d].jobId

\* Two direct executions have settled at the same reading of the clock
C29_SameReading ==
  \E c, d \in C29_Returned :
    /\ c # d
    /\ StartsWith(calls[c].jobId, DirectPrefix)
    /\ calls[c].jobId = calls[d].jobId

\* ------------------------------------------------------------------------
\* Properties of the one-time passwords
\* ------------------------------------------------------------------------
\* The calls that took the record for the right code
C30_Accepted(id) ==
  {c \in DOMAIN verifyCalls :
     /\ \/ verifyCalls[c].pc \in {"verified", "found"}
        \/ verifyCalls[c].pc = "returned" /\ verifyCalls[c].result.success
     /\ verifyCalls[c].latestOtp.id = id}

\* C30: a record accepts at most 3 wrong codes; a verifyOtp call made
\* when 3 failed attempts had been recorded for the record does not
\* succeed, whatever its code, and a record is accepted at most once,
\* for sequential and for concurrent calls
C30_ThreeAttemptsOneUse ==
  /\ \A i \in DOMAIN otpVerifications :
       /\ FailedAttempts(otpVerifications[i].id) <= 3
       /\ Cardinality(C30_Accepted(otpVerifications[i].id)) <= 1
  /\ \A c \in DOMAIN verifyCalls :
       verifyCalls[c].pc = "returned" /\ verifyCalls[c].result.success =>
         verifyCalls[c].failedBefore < 3

\* The right code is accepted after three wrong codes had been recorded
C30_AcceptedAfterThree ==
  \E c \in DOMAIN verifyCalls :
    /\ verifyCalls[c].pc = "returned"
    /\ verifyCalls[c].result.success
    /\ verifyCalls[c].failedBefore >= 3

====
